---- MODULE Spec2Model ----
(***************************************************************************)
(* Model of the bitfield crate (dzamlo/rust-bitfield): the bit-range       *)
(* engine (BitRange / BitRangeMut for unsigned scalars, LSB0 slices and    *)
(* MSB0 slices, and the Bit / BitMut blanket implementations) and the       *)
(* accessor generator (bitfield_fields).                                    *)
(*                                                                         *)
(* A machine integer of a type with `bits` bits is held as its bit pattern, *)
(* a number in 0 .. 2^bits - 1 (two's complement for the signed types);     *)
(* Num gives the number a pattern stands for.                               *)
(***************************************************************************)
EXTENDS Integers, Naturals, Sequences, FiniteSets, TLC

VARIABLES
    shape,      \* the backing storage's type: kind, element width, length
    storage,    \* self.0: the sequence of elements (one element for a scalar)
    call,       \* the last engine call: operation, arguments, prior storage, result
    maskField,  \* a field declared with `mask NAME(type)`: positions and mask type
    maskConst,  \* the constant generated for maskField
    generator,  \* which bitfield_fields runs: the proc macro or the macro_rules one
    lines,      \* the declaration list given to bitfield_fields
    pos,        \* the number of declaration lines consumed so far
    default_ty, \* the running default type
    fields,     \* the fields resolved so far, in order
    only,       \* the `only getter;` / `only setter;` / `only mask;` filter of a run
    output,     \* what a run of a generator emits, or that the build fails
    debug_assertions, \* cfg(debug_assertions) of the build that runs the accessors
    args        \* the arguments of the last call of a generated `new` or operator, or
                \* of every setter call of a sequence so far

engineVars == <<shape, storage, call>>

maskVars == <<maskField, maskConst>>

declVars == <<generator, lines, pos, default_ty, fields>>

buildVars == <<only, output, debug_assertions, args>>

vars == <<shape, storage, call, maskField, maskConst, generator, lines, pos, default_ty,
          fields, only, output, debug_assertions, args>>

-----------------------------------------------------------------------------
(* Integer types: size_of::<T>()*8 and signedness.                         *)

U8Bits == 8
U16Bits == 16

U8 == [bits |-> U8Bits, signed |-> FALSE]
I8 == [bits |-> U8Bits, signed |-> TRUE]
U16 == [bits |-> U16Bits, signed |-> FALSE]
I16 == [bits |-> U16Bits, signed |-> TRUE]

\* the $bitrange_ty instantiations of impl_bitrange_for_u_combinations and of
\* bitfield_bitrange, up to 16 bits
BitRangeTypes == {U8, I8, U16, I16}

\* the unsigned type with the given number of bits ($t, $slice_ty)
Unsigned(bits) == [bits |-> bits, signed |-> FALSE]

Pow2(k) == 2 ^ k

\* the number a bit pattern of type ty stands for
Num(ty, x) == IF ty.signed /\ x >= Pow2(ty.bits - 1) THEN x - Pow2(ty.bits) ELSE x

\* x << k on a type with `bits` bits: the bits shifted out are lost
Shl(x, k, bits) == (x * Pow2(k)) % Pow2(bits)

\* x >> k: logical on an unsigned type, arithmetic on a signed one
Shr(ty, x, k) ==
    IF ty.signed /\ x >= Pow2(ty.bits - 1)
    THEN (x \div Pow2(k)) + (Pow2(ty.bits) - Pow2(ty.bits - k))
    ELSE x \div Pow2(k)

\* x as to, for x of type from: sign- or zero-extension when widening,
\* truncation when narrowing
Cast(from, to, x) ==
    IF from.signed /\ x >= Pow2(from.bits - 1) /\ to.bits > from.bits
    THEN x + (Pow2(to.bits) - Pow2(from.bits))
    ELSE x % Pow2(to.bits)

RECURSIVE BitAnd(_, _)
BitAnd(a, b) ==
    IF a = 0 \/ b = 0 THEN 0
    ELSE (a % 2) * (b % 2) + 2 * BitAnd(a \div 2, b \div 2)

RECURSIVE BitOr(_, _)
BitOr(a, b) ==
    IF a = 0 THEN b
    ELSE IF b = 0 THEN a
    ELSE (IF a % 2 = 1 \/ b % 2 = 1 THEN 1 ELSE 0) + 2 * BitOr(a \div 2, b \div 2)

\* !x on an unsigned type with `bits` bits
BitNot(x, bits) == Pow2(bits) - 1 - x

-----------------------------------------------------------------------------
(* impl_bitrange_for_u: BitRange / BitRangeMut for an unsigned scalar.      *)

\* scalar_bit_range with the first shift one too long (bit_len - msb)
scalar_bit_range_shift_off_by_one(self, bit_len, msb, lsb, ty) ==
    LET result_bit_len == ty.bits
        shifted == Shl(self, bit_len - msb, bit_len) \div Pow2(bit_len - msb + lsb)
        result == Cast(Unsigned(bit_len), ty, shifted)
    IN  Shr(ty, Shl(result, result_bit_len - (msb - lsb + 1), result_bit_len),
            result_bit_len - (msb - lsb + 1))

\* scalar_bit_range as `(*self >> lsb) as $bitrange_ty` alone
scalar_bit_range_shift_right_only(self, bit_len, msb, lsb, ty) ==
    Cast(Unsigned(bit_len), ty, self \div Pow2(lsb))

scalar_bit_range(self, bit_len, msb, lsb, ty) ==
    LET result_bit_len == ty.bits
        shifted == Shl(self, bit_len - msb - 1, bit_len) \div Pow2(bit_len - msb - 1 + lsb)
        result == Cast(Unsigned(bit_len), ty, shifted)
    IN  Shr(ty, Shl(result, result_bit_len - (msb - lsb + 1), result_bit_len),
            result_bit_len - (msb - lsb + 1))

\* scalar_set_bit_range without `& mask` on the shifted value
scalar_set_bit_range_value_unmasked(self, bit_len, msb, lsb, value, ty) ==
    LET mask == Shl(Shl(BitNot(0, bit_len), bit_len - msb - 1, bit_len)
                        \div Pow2(bit_len - msb - 1 + lsb),
                    lsb, bit_len)
        cleared == BitAnd(self, BitNot(mask, bit_len))
    IN  BitOr(cleared, Shl(Cast(ty, Unsigned(bit_len), value), lsb, bit_len))

\* scalar_set_bit_range without `*self &= !mask`
scalar_set_bit_range_no_clear(self, bit_len, msb, lsb, value, ty) ==
    LET mask == Shl(Shl(BitNot(0, bit_len), bit_len - msb - 1, bit_len)
                        \div Pow2(bit_len - msb - 1 + lsb),
                    lsb, bit_len)
    IN  BitOr(self, BitAnd(Shl(Cast(ty, Unsigned(bit_len), value), lsb, bit_len), mask))

scalar_set_bit_range(self, bit_len, msb, lsb, value, ty) ==
    LET mask == Shl(Shl(BitNot(0, bit_len), bit_len - msb - 1, bit_len)
                        \div Pow2(bit_len - msb - 1 + lsb),
                    lsb, bit_len)
        cleared == BitAnd(self, BitNot(mask, bit_len))
    IN  BitOr(cleared, BitAnd(Shl(Cast(ty, Unsigned(bit_len), value), lsb, bit_len), mask))

-----------------------------------------------------------------------------
(* bitfield_bitrange @impl_bitrange_slice: LSB0 slice.                      *)

\* slice_bit_range's loop reading every bit from the first element
RECURSIVE slice_bit_range_loop_first_element(_, _, _, _, _, _)
slice_bit_range_loop_first_element(s, bit_len, i, lsb, ty, value) ==
    IF i < lsb THEN value
    ELSE LET shifted == Shl(value, 1, ty.bits)
             b == BitAnd(s[1] \div Pow2(i % bit_len), 1)
         IN  slice_bit_range_loop_first_element(s, bit_len, i - 1, lsb, ty,
                                                BitOr(shifted, Cast(Unsigned(bit_len), ty, b)))

\* the loop `for i in (lsb..=msb).rev()`, entered at index i with accumulator value
RECURSIVE slice_bit_range_loop(_, _, _, _, _, _)
slice_bit_range_loop(s, bit_len, i, lsb, ty, value) ==
    IF i < lsb THEN value
    ELSE LET shifted == Shl(value, 1, ty.bits)
             b == BitAnd(s[(i \div bit_len) + 1] \div Pow2(i % bit_len), 1)
         IN  slice_bit_range_loop(s, bit_len, i - 1, lsb, ty,
                                  BitOr(shifted, Cast(Unsigned(bit_len), ty, b)))

\* slice_bit_range without the closing shift pair
slice_bit_range_no_extension(s, bit_len, msb, lsb, ty) ==
    slice_bit_range_loop(s, bit_len, msb, lsb, ty, 0)

slice_bit_range(s, bit_len, msb, lsb, ty) ==
    LET value_bit_len == ty.bits
        value == slice_bit_range_loop(s, bit_len, msb, lsb, ty, 0)
    IN  Shr(ty, Shl(value, value_bit_len - (msb - lsb + 1), value_bit_len),
            value_bit_len - (msb - lsb + 1))

\* slice_set_bit_range's loop without `&= !(1 << (i%bit_len))`
RECURSIVE slice_set_bit_range_loop_no_clear(_, _, _, _, _, _)
slice_set_bit_range_loop_no_clear(s, bit_len, i, msb, ty, value) ==
    IF i > msb THEN s
    ELSE LET e == (i \div bit_len) + 1
             written == BitOr(s[e],
                              Shl(Cast(ty, Unsigned(bit_len), BitAnd(value, 1)),
                                  i % bit_len, bit_len))
         IN  slice_set_bit_range_loop_no_clear([s EXCEPT ![e] = written], bit_len, i + 1,
                                               msb, ty, Shr(ty, value, 1))

\* the loop `for i in lsb..=msb`, entered at index i
RECURSIVE slice_set_bit_range_loop(_, _, _, _, _, _)
slice_set_bit_range_loop(s, bit_len, i, msb, ty, value) ==
    IF i > msb THEN s
    ELSE LET e == (i \div bit_len) + 1
             cleared == BitAnd(s[e], BitNot(Shl(1, i % bit_len, bit_len), bit_len))
             written == BitOr(cleared,
                              Shl(Cast(ty, Unsigned(bit_len), BitAnd(value, 1)),
                                  i % bit_len, bit_len))
         IN  slice_set_bit_range_loop([s EXCEPT ![e] = written], bit_len, i + 1, msb, ty,
                                      Shr(ty, value, 1))

slice_set_bit_range(s, bit_len, msb, lsb, value, ty) ==
    slice_set_bit_range_loop(s, bit_len, lsb, msb, ty, value)

-----------------------------------------------------------------------------
(* bitfield_bitrange @impl_bitrange_slice_msb0: MSB0 slice.                 *)

\* slice_msb0_bit_range's loop with the LSB0 offset in the element (i%bit_len)
RECURSIVE slice_msb0_bit_range_loop_lsb0_offset(_, _, _, _, _, _)
slice_msb0_bit_range_loop_lsb0_offset(s, bit_len, i, msb, ty, value) ==
    IF i > msb THEN value
    ELSE LET shifted == Shl(value, 1, ty.bits)
             b == BitAnd(s[(i \div bit_len) + 1] \div Pow2(i % bit_len), 1)
         IN  slice_msb0_bit_range_loop_lsb0_offset(s, bit_len, i + 1, msb, ty,
                                                   BitOr(shifted, Cast(Unsigned(bit_len), ty, b)))

\* the loop `for i in lsb..=msb`, entered at index i with accumulator value
RECURSIVE slice_msb0_bit_range_loop(_, _, _, _, _, _)
slice_msb0_bit_range_loop(s, bit_len, i, msb, ty, value) ==
    IF i > msb THEN value
    ELSE LET shifted == Shl(value, 1, ty.bits)
             b == BitAnd(s[(i \div bit_len) + 1] \div Pow2(bit_len - (i % bit_len) - 1), 1)
         IN  slice_msb0_bit_range_loop(s, bit_len, i + 1, msb, ty,
                                       BitOr(shifted, Cast(Unsigned(bit_len), ty, b)))

slice_msb0_bit_range(s, bit_len, msb, lsb, ty) ==
    LET value_bit_len == ty.bits
        value == slice_msb0_bit_range_loop(s, bit_len, lsb, msb, ty, 0)
    IN  Shr(ty, Shl(value, value_bit_len - (msb - lsb + 1), value_bit_len),
            value_bit_len - (msb - lsb + 1))

\* slice_msb0_set_bit_range's loop clearing the whole element before each bit
RECURSIVE slice_msb0_set_bit_range_loop_clear_element(_, _, _, _, _, _)
slice_msb0_set_bit_range_loop_clear_element(s, bit_len, i, lsb, ty, value) ==
    IF i < lsb THEN s
    ELSE LET e == (i \div bit_len) + 1
             off == bit_len - (i % bit_len) - 1
             written == Shl(Cast(ty, Unsigned(bit_len), BitAnd(value, 1)), off, bit_len)
         IN  slice_msb0_set_bit_range_loop_clear_element([s EXCEPT ![e] = written], bit_len,
                                                         i - 1, lsb, ty, Shr(ty, value, 1))

\* the loop `for i in (lsb..=msb).rev()`, entered at index i
RECURSIVE slice_msb0_set_bit_range_loop(_, _, _, _, _, _)
slice_msb0_set_bit_range_loop(s, bit_len, i, lsb, ty, value) ==
    IF i < lsb THEN s
    ELSE LET e == (i \div bit_len) + 1
             off == bit_len - (i % bit_len) - 1
             cleared == BitAnd(s[e], BitNot(Shl(1, off, bit_len), bit_len))
             written == BitOr(cleared,
                              Shl(Cast(ty, Unsigned(bit_len), BitAnd(value, 1)),
                                  off, bit_len))
         IN  slice_msb0_set_bit_range_loop([s EXCEPT ![e] = written], bit_len, i - 1, lsb,
                                           ty, Shr(ty, value, 1))

\* slice_msb0_set_bit_range with the LSB0 bit offsets
slice_msb0_set_bit_range_lsb0_offsets(s, bit_len, msb, lsb, value, ty) ==
    slice_set_bit_range(s, bit_len, msb, lsb, value, ty)

slice_msb0_set_bit_range(s, bit_len, msb, lsb, value, ty) ==
    slice_msb0_set_bit_range_loop(s, bit_len, msb, lsb, ty, value)

-----------------------------------------------------------------------------
(* The BitRange<T> / BitRangeMut<T> implementation the storage type selects. *)

bit_range(sh, s, msb, lsb, ty) ==
    CASE sh.kind = "scalar" -> scalar_bit_range(s[1], sh.bits, msb, lsb, ty)
      [] sh.kind = "lsb0" -> slice_bit_range(s, sh.bits, msb, lsb, ty)
      [] sh.kind = "msb0" -> slice_msb0_bit_range(s, sh.bits, msb, lsb, ty)

set_bit_range(sh, s, msb, lsb, value, ty) ==
    CASE sh.kind = "scalar" -> <<scalar_set_bit_range(s[1], sh.bits, msb, lsb, value, ty)>>
      [] sh.kind = "lsb0" -> slice_set_bit_range(s, sh.bits, msb, lsb, value, ty)
      [] sh.kind = "msb0" -> slice_msb0_set_bit_range(s, sh.bits, msb, lsb, value, ty)

\* impl<T: BitRange<u8>> Bit for T
bit(sh, s, b) == bit_range(sh, s, b, b, U8) # 0

\* value as u8, for a bool
BoolAsU8(value) == IF value THEN 1 ELSE 0

\* set_bit ignoring its value
set_bit_always_one(sh, s, b, value) == set_bit_range(sh, s, b, b, 1, U8)

\* impl<T: BitRangeMut<u8>> BitMut for T
set_bit(sh, s, b, value) == set_bit_range(sh, s, b, b, BoolAsU8(value), U8)

-----------------------------------------------------------------------------
(* The engine under call: one storage value, one call of the BitRange,      *)
(* BitRangeMut, Bit or BitMut trait on it.                                   *)

\* the longest slice modelled
MaxLen == 2

ScalarShapes == {[kind |-> "scalar", bits |-> b, len |-> 1] : b \in {U8Bits, U16Bits}}

SliceShapes ==
    {[kind |-> k, bits |-> U8Bits, len |-> n] : k \in {"lsb0", "msb0"}, n \in 1..MaxLen}

Shapes == ScalarShapes \cup SliceShapes

\* number of bit positions of a storage
TotalBits(sh) == sh.bits * sh.len

\* prior contents: all zeros, all ones, and a mixed pattern (0x5A96 and its
\* complement 0xA569, alternating over the elements)
Contents(sh) ==
    { [e \in 1..sh.len |-> 0],
      [e \in 1..sh.len |-> Pow2(sh.bits) - 1],
      [e \in 1..sh.len |-> (IF e % 2 = 1 THEN 23190 ELSE 42345) % Pow2(sh.bits)] }

\* values passed to a setter: 0, and the low w bits of all-ones and of 0x5A96
\* for every w up to the type's width (so both values that fit a field and
\* values with bits above it)
Values(ty) ==
    {0} \cup {p % Pow2(w) : p \in {Pow2(ty.bits) - 1, 23190 % Pow2(ty.bits)}, w \in 1..ty.bits}

\* well-formed ranges: msb >= lsb, inside the storage, no wider than the type
Ranges(sh, ty) ==
    {r \in (0..TotalBits(sh) - 1) \X (0..TotalBits(sh) - 1) :
        r[1] >= r[2] /\ r[1] - r[2] + 1 <= ty.bits}

NoCall == [op |-> "none", msb |-> 0, lsb |-> 0, count |-> 0, index |-> 0, ty |-> U8,
           value |-> 0, before |-> <<>>, ret |-> 0]

NoMask == [ok |-> FALSE, value |-> 0, generated |-> FALSE]

\* no mask is being generated
MaskIdle ==
    /\ maskField = [position |-> <<0>>, mask_t |-> U8]
    /\ maskConst = NoMask

\* no declaration list is being processed
DeclarationsIdle ==
    /\ generator = "none"
    /\ lines = <<>>
    /\ pos = 0
    /\ default_ty = "none"
    /\ fields = <<>>

NoOutput == [done |-> FALSE, error |-> FALSE, items |-> <<>>]

\* no generator has run; the accessors run in a debug build
BuildIdle ==
    /\ only = "none"
    /\ output = NoOutput
    /\ debug_assertions = TRUE
    /\ args = <<>>

Init ==
    /\ shape \in Shapes
    /\ storage \in Contents(shape)
    /\ call = NoCall
    /\ MaskIdle
    /\ DeclarationsIdle
    /\ BuildIdle

\* BitRangeMut::set_bit_range(&mut self, msb, lsb, value)
SetBitRange ==
    /\ call.op = "none"
    /\ \E ty \in BitRangeTypes : \E r \in Ranges(shape, ty) : \E v \in Values(ty) :
        /\ storage' = set_bit_range(shape, storage, r[1], r[2], v, ty)
        /\ call' = [NoCall EXCEPT !.op = "set_bit_range", !.msb = r[1], !.lsb = r[2],
                                   !.ty = ty, !.value = v, !.before = storage]
    /\ UNCHANGED <<shape, maskVars, declVars, buildVars>>

\* BitRange::bit_range(&self, msb, lsb)
GetBitRange ==
    /\ call.op = "none"
    /\ \E ty \in BitRangeTypes : \E r \in Ranges(shape, ty) :
        call' = [NoCall EXCEPT !.op = "bit_range", !.msb = r[1], !.lsb = r[2], !.ty = ty,
                                !.before = storage,
                                !.ret = bit_range(shape, storage, r[1], r[2], ty)]
    /\ UNCHANGED <<shape, storage, maskVars, declVars, buildVars>>

\* BitMut::set_bit(&mut self, bit, value)
SetBit ==
    /\ call.op = "none"
    /\ \E b \in 0..TotalBits(shape) - 1 : \E v \in BOOLEAN :
        /\ storage' = set_bit(shape, storage, b, v)
        /\ call' = [NoCall EXCEPT !.op = "set_bit", !.msb = b, !.lsb = b, !.value = v,
                                   !.before = storage]
    /\ UNCHANGED <<shape, maskVars, declVars, buildVars>>

\* Bit::bit(&self, bit)
GetBit ==
    /\ call.op = "none"
    /\ \E b \in 0..TotalBits(shape) - 1 :
        call' = [NoCall EXCEPT !.op = "bit", !.msb = b, !.lsb = b, !.before = storage,
                                !.ret = bit(shape, storage, b)]
    /\ UNCHANGED <<shape, storage, maskVars, declVars, buildVars>>

Next == SetBitRange \/ GetBitRange \/ SetBit \/ GetBit

Spec == Init /\ [][Next]_vars

-----------------------------------------------------------------------------
(* bitfield_fields: the accessors generated for an array field declared     *)
(* `t, getter, setter: msb, lsb, count`, with no from / into conversion.    *)

\* the range of element `index`, as getter and setter compute it; <<msb, lsb>>
\* with the width one short (msb - lsb)
strided_range_width_short(msb, lsb, index) ==
    LET width == msb - lsb
        l == lsb + index * width
    IN  <<l + width, l>>

\* the range of element `index`, as getter and setter compute it; <<msb, lsb>>
strided_range(msb, lsb, index) ==
    LET width == msb - lsb + 1
        l == lsb + index * width
        m == l + width - 1
    IN  <<m, l>>

\* fn $getter(&self, index: usize) -> $into
strided_getter(sh, s, t, msb, lsb, index) ==
    LET r == strided_range(msb, lsb, index)
        raw_value == bit_range(sh, s, r[1], r[2], t)
    IN  raw_value

\* fn $setter(&mut self, index: usize, value: $from)
strided_setter(sh, s, t, msb, lsb, index, value) ==
    LET r == strided_range(msb, lsb, index)
    IN  set_bit_range(sh, s, r[1], r[2], value, t)

\* the most elements an array field is declared with
MaxCount == 3

\* array fields of type t that fit the storage: <<msb, lsb, count>>
StridedFields(sh, t) ==
    {f \in (0..TotalBits(sh) - 1) \X (0..TotalBits(sh) - 1) \X (1..MaxCount) :
        /\ f[1] >= f[2]
        /\ f[1] - f[2] + 1 <= t.bits
        /\ f[2] + f[3] * (f[1] - f[2] + 1) <= TotalBits(sh)}

\* values passed to an array field's setter: zero, all ones, 0x5A96
FieldValues(t) == {0, Pow2(t.bits) - 1, 23190 % Pow2(t.bits)}

\* a call of the generated setter of an array field; __bitfield_debug_assert
\* holds (index < count)
StridedSetter ==
    /\ call.op = "none"
    /\ \E t \in BitRangeTypes : \E f \in StridedFields(shape, t) :
       \E index \in 0..f[3] - 1 : \E v \in FieldValues(t) :
        /\ index < f[3]
        /\ storage' = strided_setter(shape, storage, t, f[1], f[2], index, v)
        /\ call' = [NoCall EXCEPT !.op = "strided_setter", !.msb = f[1], !.lsb = f[2],
                                   !.count = f[3], !.index = index, !.ty = t,
                                   !.value = v, !.before = storage]
    /\ UNCHANGED <<shape, maskVars, declVars, buildVars>>

\* a call of the generated getter of an array field; __bitfield_debug_assert
\* holds (index < count)
StridedGetter ==
    /\ call.op = "none"
    /\ \E t \in BitRangeTypes : \E f \in StridedFields(shape, t) :
       \E index \in 0..f[3] - 1 :
        /\ index < f[3]
        /\ call' = [NoCall EXCEPT !.op = "strided_getter", !.msb = f[1], !.lsb = f[2],
                                   !.count = f[3], !.index = index, !.ty = t,
                                   !.before = storage,
                                   !.ret = strided_getter(shape, storage, t, f[1], f[2],
                                                          index)]
    /\ UNCHANGED <<shape, storage, maskVars, declVars, buildVars>>

NextFields == StridedSetter \/ StridedGetter

SpecFields == Init /\ [][NextFields]_vars

-----------------------------------------------------------------------------
(* bitfield_fields, `only mask`: the constant generated for a field         *)
(* declared with `mask NAME(mask_t)`. The constant is evaluated at compile  *)
(* time in mask_t: a shift 1 << i with i not below mask_t's width does not  *)
(* compile (ok is FALSE).                                                    *)

\* the loop `while i <= msb { acc |= 1<<i; i += 1; }`, entered at i
RECURSIVE mask_loop(_, _, _)
mask_loop(i, msb, acc) ==
    IF i > msb THEN acc ELSE mask_loop(i + 1, msb, BitOr(acc, Pow2(i)))

\* const $mask: $mask_t = 1 << $bit
mask_bit(b, mask_t) ==
    IF b >= mask_t.bits THEN [ok |-> FALSE, value |-> 0, generated |-> TRUE]
    ELSE [ok |-> TRUE, value |-> Pow2(b), generated |-> TRUE]

\* the arm `$msb:expr, $lsb:expr`
mask_msb_lsb(msb, lsb, mask_t) ==
    IF lsb <= msb /\ msb >= mask_t.bits
    THEN [ok |-> FALSE, value |-> 0, generated |-> TRUE]
    ELSE [ok |-> TRUE, value |-> mask_loop(lsb, msb, 0), generated |-> TRUE]

\* the arm `$msb:expr, $lsb:expr, $count:expr`
mask_msb_lsb_count(msb, lsb, count, mask_t) ==
    LET width == msb - lsb
        full_msb == msb + width * count
    IN  IF lsb <= full_msb /\ full_msb >= mask_t.bits
        THEN [ok |-> FALSE, value |-> 0, generated |-> TRUE]
        ELSE [ok |-> TRUE, value |-> mask_loop(lsb, full_msb, 0), generated |-> TRUE]

\* the arm chosen by the number of position expressions
generate_mask(f) ==
    CASE Len(f.position) = 1 -> mask_bit(f.position[1], f.mask_t)
      [] Len(f.position) = 2 -> mask_msb_lsb(f.position[1], f.position[2], f.mask_t)
      [] Len(f.position) = 3 ->
            mask_msb_lsb_count(f.position[1], f.position[2], f.position[3], f.mask_t)

MaskTypes == {U8, U16}

\* the position expressions of the fields that fit a mask type: one bit,
\* msb and lsb, or msb, lsb and count
Positions(mask_t) ==
    LET Idx == 0..mask_t.bits - 1
    IN  {<<b>> : b \in Idx}
        \cup {r \in Idx \X Idx : r[1] >= r[2]}
        \cup {f \in Idx \X Idx \X (1..MaxCount) :
                f[1] >= f[2] /\ f[2] + f[3] * (f[1] - f[2] + 1) <= mask_t.bits}

InitMasks ==
    /\ shape = [kind |-> "scalar", bits |-> U8Bits, len |-> 1]
    /\ storage = <<0>>
    /\ call = NoCall
    /\ \E mask_t \in MaskTypes : \E p \in Positions(mask_t) :
          maskField = [position |-> p, mask_t |-> mask_t]
    /\ maskConst = NoMask
    /\ DeclarationsIdle
    /\ BuildIdle

\* bitfield_fields!{only mask; ...} on the field
GenerateMask ==
    /\ ~maskConst.generated
    /\ maskConst' = generate_mask(maskField)
    /\ UNCHANGED <<engineVars, maskField, declVars, buildVars>>

NextMasks == GenerateMask

SpecMasks == InitMasks /\ [][NextMasks]_vars

-----------------------------------------------------------------------------
(* bitfield_fields: resolving each field's type over the declaration list. *)
(* A line is a default type (kind "type") or a field (kind "field") whose  *)
(* ty is its own type or "none". Two generators do it: the proc macro      *)
(* (BitfieldFieldLines::into_fields) and the macro_rules bitfield_fields,   *)
(* which carries $default_ty through its recursion.                         *)

\* the type macro_rules bitfield_fields puts in place of a missing default
SET_A_DEFAULT_TYPE == "SET_A_DEFAULT_TYPE_OR_SPECIFY_THE_TYPE_FOR_EACH_FIELDS"

\* the body of into_fields' loop with a field's own type becoming the default
into_fields_line_type_sticks(acc, line) ==
    IF line.kind = "type"
    THEN [acc EXCEPT !.default_ty = line.ty]
    ELSE IF line.ty = "none"
         THEN [acc EXCEPT !.result = Append(acc.result, [line EXCEPT !.ty = acc.default_ty])]
         ELSE [default_ty |-> line.ty, result |-> Append(acc.result, line)]

\* the body of into_fields' loop: acc is <default_ty, result>
into_fields_line(acc, line) ==
    IF line.kind = "type"
    THEN [acc EXCEPT !.default_ty = line.ty]
    ELSE IF line.ty = "none"
         THEN [acc EXCEPT !.result = Append(acc.result, [line EXCEPT !.ty = acc.default_ty])]
         ELSE [acc EXCEPT !.result = Append(acc.result, line)]

\* one expansion of macro_rules bitfield_fields on `$default_ty; line; rest`:
\* the arm for a second type replaces the default, a field arm emits @field
\* with $t or $default_ty and recurses with $default_ty unchanged
bitfield_fields_line(acc, line) ==
    IF line.kind = "type"
    THEN [acc EXCEPT !.default_ty = line.ty]
    ELSE [acc EXCEPT !.result =
            Append(acc.result,
                   [line EXCEPT !.ty = IF line.ty = "none" THEN acc.default_ty ELSE line.ty])]

\* the longest declaration list
MaxLines == 4

DeclLines ==
    {[kind |-> "type", ty |-> t] : t \in {"u16", "u32"}}
    \cup {[kind |-> "field", ty |-> t] : t \in {"none", "u8", "u32"}}

DeclLists == UNION {[1..n -> DeclLines] : n \in 0..MaxLines}

InitDeclarations ==
    /\ shape = [kind |-> "scalar", bits |-> U8Bits, len |-> 1]
    /\ storage = <<0>>
    /\ call = NoCall
    /\ MaskIdle
    /\ BuildIdle
    /\ generator \in {"proc_macro", "macro_rules"}
    /\ lines \in DeclLists
    /\ pos = 0
    /\ default_ty = "none"
    /\ fields = <<>>

\* into_fields: one turn of `for line in self.0`
IntoFieldsLine ==
    /\ generator = "proc_macro"
    /\ pos < Len(lines)
    /\ LET acc == into_fields_line([default_ty |-> default_ty, result |-> fields],
                                   lines[pos + 1])
       IN  /\ default_ty' = acc.default_ty
           /\ fields' = acc.result
    /\ pos' = pos + 1
    /\ UNCHANGED <<engineVars, maskVars, buildVars, generator, lines>>

\* macro_rules bitfield_fields, the arm `(only $only:tt; $($rest:tt)*)`: the
\* input does not start with a type, the placeholder becomes the default
BitfieldFieldsNoDefault ==
    /\ generator = "macro_rules"
    /\ default_ty = "none"
    /\ IF pos < Len(lines) THEN lines[pos + 1].kind # "type" ELSE TRUE
    /\ default_ty' = SET_A_DEFAULT_TYPE
    /\ UNCHANGED <<engineVars, maskVars, buildVars, generator, lines, pos, fields>>

\* macro_rules bitfield_fields, the arms that consume one line
BitfieldFieldsLine ==
    /\ generator = "macro_rules"
    /\ pos < Len(lines)
    /\ IF default_ty = "none" THEN lines[pos + 1].kind = "type" ELSE TRUE
    /\ LET acc == bitfield_fields_line([default_ty |-> default_ty, result |-> fields],
                                       lines[pos + 1])
       IN  /\ default_ty' = acc.default_ty
           /\ fields' = acc.result
    /\ pos' = pos + 1
    /\ UNCHANGED <<engineVars, maskVars, buildVars, generator, lines>>

NextDeclarations == IntoFieldsLine \/ BitfieldFieldsNoDefault \/ BitfieldFieldsLine

SpecDeclarations == InitDeclarations /\ [][NextDeclarations]_vars

-----------------------------------------------------------------------------
(* bitfield_fields as a whole: from a declaration list to the getters,      *)
(* setters and mask constants it emits, or to a failed build. A field line  *)
(* is [kind, n, ty, mask, from, into, getter, setter, position]: n numbers   *)
(* the field (as in foo1, foo2), ty is its own type or "none", mask says     *)
(* whether `mask NAME(u8)` is given, from / into whether the keywords are    *)
(* given (the conversion type is FooBar), getter and setter are a name or    *)
(* "_", position is the one to three position expressions. An emitted item   *)
(* is [kind, n, sig, raw, arity]: sig is the getter's return type, the       *)
(* setter's value type or the mask's type, raw the type handed to the bit    *)
(* range engine.                                                             *)

NoItems == [error |-> FALSE, items |-> <<>>]

Failed == [error |-> TRUE, items |-> <<>>]

Item(kind, f, sig, raw) ==
    [error |-> FALSE,
     items |-> << [kind |-> kind, n |-> f.n, sig |-> sig, raw |-> raw,
                   arity |-> Len(f.position)] >>]

\* two token streams one after the other; a panic or a failed expansion in
\* either fails the whole
Then(a, b) ==
    IF a.error \/ b.error THEN Failed ELSE [error |-> FALSE, items |-> a.items \o b.items]

\* FieldTy::as_type, with None as "none"
as_type(ty) == ty

\* ty_from deciding on `into`: from and into as one flag
ty_from_follows_into(f) == IF f.into THEN "FooBar" ELSE as_type(f.ty)

\* BitfieldField::ty_from
ty_from(f) == IF f.from THEN "FooBar" ELSE as_type(f.ty)

\* BitfieldField::ty_into
ty_into(f) == IF f.into THEN "FooBar" ELSE as_type(f.ty)

\* BitfieldFieldLines::into_fields, from line i on
RECURSIVE into_fields_from(_, _, _)
into_fields_from(acc, ls, i) ==
    IF i > Len(ls) THEN acc.result
    ELSE into_fields_from(into_fields_line(acc, ls[i]), ls, i + 1)

\* BitfieldFieldLines::into_fields
into_fields(ls) == into_fields_from([default_ty |-> "none", result |-> <<>>], ls, 1)

\* generate_getters' closure with a single-bit getter typed like a range's
getter_of_bit_typed(f) ==
    IF f.getter = "_" THEN NoItems
    ELSE CASE Len(f.position) = 1 ->
                IF as_type(f.ty) = "none" THEN Item("getter", f, "bool", "bool")
                ELSE Item("getter", f, ty_into(f), as_type(f.ty))
           [] Len(f.position) = 2 ->
                IF as_type(f.ty) = "none" THEN Failed
                ELSE Item("getter", f, ty_into(f), as_type(f.ty))
           [] Len(f.position) = 3 ->
                IF f.ty = "bool" THEN Item("getter", f, "bool", "bool")
                ELSE IF f.ty = "none" THEN Failed
                     ELSE Item("getter", f, ty_into(f), f.ty)

\* generate_getters: the closure applied to one field
getter_of(f) ==
    IF f.getter = "_" THEN NoItems
    ELSE CASE Len(f.position) = 1 -> Item("getter", f, "bool", "bool")
           [] Len(f.position) = 2 ->
                IF as_type(f.ty) = "none" THEN Failed
                ELSE Item("getter", f, ty_into(f), as_type(f.ty))
           [] Len(f.position) = 3 ->
                IF f.ty = "bool" THEN Item("getter", f, "bool", "bool")
                ELSE IF f.ty = "none" THEN Failed
                     ELSE Item("getter", f, ty_into(f), f.ty)

\* generate_setters' closure without the check for a missing type
setter_of_accepts_missing_type(f) ==
    IF f.setter = "_" THEN NoItems
    ELSE IF Len(f.position) = 1 THEN Item("setter", f, "bool", "bool")
         ELSE Item("setter", f, ty_from(f), as_type(f.ty))

\* generate_setters: the closure applied to one field
setter_of(f) ==
    IF f.setter = "_" THEN NoItems
    ELSE CASE Len(f.position) = 1 -> Item("setter", f, "bool", "bool")
           [] Len(f.position) = 2 ->
                IF as_type(f.ty) = "none" THEN Failed
                ELSE Item("setter", f, ty_from(f), as_type(f.ty))
           [] Len(f.position) = 3 ->
                IF f.ty = "bool" THEN Item("setter", f, ty_from(f), "bool")
                ELSE IF f.ty = "none" THEN Failed
                     ELSE Item("setter", f, ty_from(f), f.ty)

\* generate_masks' closure emitting a mask only for a field with a getter
mask_of_needs_getter(f) ==
    IF f.mask /\ f.getter # "_" THEN Item("mask", f, "u8", "u8") ELSE NoItems

\* generate_masks: the closure applied to one field
mask_of(f) == IF f.mask THEN Item("mask", f, "u8", "u8") ELSE NoItems

\* fields.iter().flat_map(closure), from field i on
RECURSIVE flat_map(_, _, _)
flat_map(fs, i, kind) ==
    IF i > Len(fs) THEN NoItems
    ELSE Then(CASE kind = "getter" -> getter_of(fs[i])
                [] kind = "setter" -> setter_of(fs[i])
                [] kind = "mask" -> mask_of(fs[i]),
              flat_map(fs, i + 1, kind))

generate_getters(fs) == flat_map(fs, 1, "getter")

generate_setters(fs) == flat_map(fs, 1, "setter")

generate_masks(fs) == flat_map(fs, 1, "mask")

\* Only::getter_or_none
getter_or_none(o) == o = "getter" \/ o = "none"

\* Only::mask_or_none
mask_or_none(o) == o = "mask" \/ o = "none"

\* Only::setter_or_none
setter_or_none(o) == o = "setter" \/ o = "none"

\* the proc macro bitfield_fields with the filters swapped for masks
proc_bitfield_fields_masks_unfiltered(o, ls) ==
    LET fs == into_fields(ls)
        getters == IF getter_or_none(o) THEN generate_getters(fs) ELSE NoItems
        setters == IF setter_or_none(o) THEN generate_setters(fs) ELSE NoItems
        masks == generate_masks(fs)
    IN  Then(getters, Then(setters, masks))

\* the proc macro bitfield_fields
proc_bitfield_fields(o, ls) ==
    LET fs == into_fields(ls)
        getters == IF getter_or_none(o) THEN generate_getters(fs) ELSE NoItems
        setters == IF setter_or_none(o) THEN generate_setters(fs) ELSE NoItems
        masks == IF mask_or_none(o) THEN generate_masks(fs) ELSE NoItems
    IN  Then(getters, Then(setters, masks))

\* macro_rules bitfield_fields, the arms that turn one field line into
\* `@field (vis) t, mask, from, into, getter, setter: exprs`; there are arms
\* for `from into T`, for `into T` and for neither, none for `from T` alone
field_arm(default_ty_, line) ==
    LET t == IF line.ty = "none" THEN default_ty_ ELSE line.ty
    IN  [n |-> line.n, t |-> t, mask |-> line.mask,
         from |-> IF line.from /\ line.into THEN "FooBar" ELSE t,
         into |-> IF line.into THEN "FooBar" ELSE t,
         getter |-> line.getter, setter |-> line.setter, position |-> line.position]

\* the `only mask; @field ... $t, $mask($mask_t): exprs` arms:
\* __NO_MASK_FOR_FIELD emits nothing
mask_rules(a) ==
    IF a.mask
    THEN [error |-> FALSE,
          items |-> << [kind |-> "mask", n |-> a.n, sig |-> "u8", raw |-> "u8",
                        arity |-> Len(a.position)] >>]
    ELSE NoItems

\* the @field arms refusing a range whose msb is below its lsb
field_rules_one_checks_range(o, a) ==
    IF Len(a.position) = 2 /\ a.position[1] < a.position[2] THEN Failed
    ELSE CASE a.getter = "_" /\ a.setter = "_" -> Failed
           [] a.getter = "_" /\ a.setter # "_" ->
                 IF o = "mask" THEN mask_rules(a)
                 ELSE IF o = "getter" THEN NoItems
                 ELSE Item("setter", a, a.from, a.t)
           [] a.getter # "_" /\ a.setter = "_" ->
                 IF o = "mask" THEN mask_rules(a)
                 ELSE IF o = "setter" THEN NoItems
                 ELSE Item("getter", a, a.into, a.t)

\* the @field arms with `_` for the getter or for the setter
field_rules_one(o, a) ==
    LET the_getter == [kind |-> "getter", n |-> a.n,
                       sig |-> IF Len(a.position) = 1 THEN "bool" ELSE a.into,
                   raw |-> IF Len(a.position) = 1 THEN "bool" ELSE a.t,
                   arity |-> Len(a.position)]
        the_setter == [kind |-> "setter", n |-> a.n,
                   sig |-> IF Len(a.position) = 1 THEN "bool" ELSE a.from,
                   raw |-> IF Len(a.position) = 1 THEN "bool" ELSE a.t,
                   arity |-> Len(a.position)]
    IN  CASE a.getter = "_" /\ a.setter = "_" -> Failed
          [] a.getter = "_" /\ a.setter # "_" ->
                (CASE o = "mask" -> mask_rules(a)
                   [] o = "setter" -> [error |-> FALSE, items |-> <<the_setter>>]
                   [] o = "getter" -> NoItems)
          [] a.getter # "_" /\ a.setter = "_" ->
                (CASE o = "mask" -> mask_rules(a)
                   [] o = "getter" -> [error |-> FALSE, items |-> <<the_getter>>]
                   [] o = "setter" -> NoItems)

\* the @field arms: a field with both names is split into its getter half,
\* which keeps the mask, and its setter half with __NO_MASK_FOR_FIELD
field_rules(o, a) ==
    IF a.getter # "_" /\ a.setter # "_"
    THEN Then(field_rules_one(o, [a EXCEPT !.setter = "_"]),
              field_rules_one(o, [a EXCEPT !.getter = "_", !.mask = FALSE]))
    ELSE field_rules_one(o, a)

\* macro_rules bitfield_fields `only o; default_ty; lines from i on`
RECURSIVE rules_from(_, _, _, _)
rules_from(o, default_ty_, ls, i) ==
    IF i > Len(ls) THEN NoItems
    ELSE IF ls[i].kind = "type" THEN rules_from(o, ls[i].ty, ls, i + 1)
    ELSE IF ls[i].from /\ ~ls[i].into THEN Failed
    ELSE Then(field_rules(o, field_arm(default_ty_, ls[i])),
              rules_from(o, default_ty_, ls, i + 1))

\* macro_rules bitfield_fields!{only o; lines}
rules_only(o, ls) ==
    IF ls # <<>> /\ ls[1].kind = "type"
    THEN rules_from(o, ls[1].ty, ls, 2)
    ELSE rules_from(o, SET_A_DEFAULT_TYPE, ls, 1)

\* the expansion is compiled: the placeholder type names no type
type_check(out) ==
    IF out.error \/ \E k \in 1..Len(out.items) :
                       SET_A_DEFAULT_TYPE \in {out.items[k].sig, out.items[k].raw}
    THEN Failed
    ELSE out

\* macro_rules bitfield_fields: without `only`, the three filtered expansions
rules_bitfield_fields(o, ls) ==
    type_check(IF o = "none"
               THEN Then(rules_only("getter", ls),
                         Then(rules_only("setter", ls), rules_only("mask", ls)))
               ELSE rules_only(o, ls))

\* bitfield_fields of either generator
bitfield_fields(g, o, ls) ==
    IF g = "proc_macro" THEN proc_bitfield_fields(o, ls) ELSE rules_bitfield_fields(o, ls)

\* the most field lines of a declaration list handed to bitfield_fields
MaxFieldLines == 1

\* the position expressions of a field: a bit; msb, lsb; msb, lsb, count
WellFormedPositions == {<<0>>, <<3, 0>>, <<1, 0, 2>>}

\* msb below lsb, and a range wider than the field's type (u8)
MalformedPositions == {<<0, 3>>, <<11, 0>>}

\* getter and setter names
Names == {<<"foo", "set_foo">>, <<"foo", "_">>, <<"_", "set_foo">>, <<"_", "_">>}

FieldLine(ty, mask, from, into, names, position) ==
    [kind |-> "field", n |-> 0, ty |-> ty, mask |-> mask, from |-> from, into |-> into,
     getter |-> names[1], setter |-> names[2], position |-> position]

\* the field declarations tried: with and without a type, a mask, from and
\* into, each name given or `_`, and the malformed ranges
FieldLinesTried ==
    {FieldLine("u8", FALSE, from, into, names, p) :
        from \in BOOLEAN, into \in BOOLEAN, names \in Names, p \in WellFormedPositions}
    \cup {FieldLine(ty, mask, FALSE, FALSE, names, p) :
            ty \in {"none", "u8"}, mask \in BOOLEAN, names \in Names,
            p \in WellFormedPositions}
    \cup {FieldLine("u8", FALSE, FALSE, FALSE, names, p) :
            names \in Names, p \in MalformedPositions}

\* a default type line
TypeLine == [kind |-> "type", ty |-> "u16"]

\* a declaration list: the field lines fs numbered in order, with one default
\* type line as line number at (none when at is 0)
Numbered(fs, at) ==
    [i \in 1..(Len(fs) + IF at > 0 THEN 1 ELSE 0) |->
        IF at > 0 /\ i = at THEN TypeLine
        ELSE LET k == IF at > 0 /\ i > at THEN i - 1 ELSE i
             IN  [fs[k] EXCEPT !.n = k]]

Onlys == {"none", "getter", "setter", "mask"}

InitGenerate ==
    /\ shape = [kind |-> "scalar", bits |-> U8Bits, len |-> 1]
    /\ storage = <<0>>
    /\ call = NoCall
    /\ MaskIdle
    /\ generator \in {"proc_macro", "macro_rules"}
    /\ \E n \in 0..MaxFieldLines : \E fs \in [1..n -> FieldLinesTried] :
       \E at \in 0..n + 1 :
          lines = Numbered(fs, at)
    /\ pos = 0
    /\ default_ty = "none"
    /\ fields = <<>>
    /\ only = "none"
    /\ output = NoOutput
    /\ debug_assertions = TRUE
    /\ args = <<>>

\* the proc macro bitfield_fields!{[only o;] lines}
ProcBitfieldFields ==
    /\ generator = "proc_macro"
    /\ ~output.done
    /\ fields' = into_fields(lines)
    /\ \E o \in Onlys :
          /\ only' = o
          /\ LET out == proc_bitfield_fields(o, lines)
             IN  output' = [done |-> TRUE, error |-> out.error, items |-> out.items]
    /\ UNCHANGED <<engineVars, maskVars, generator, lines, pos, default_ty,
                   debug_assertions, args>>

\* the macro_rules bitfield_fields!{[only o;] lines}, and the build of what
\* it expands to
RulesBitfieldFields ==
    /\ generator = "macro_rules"
    /\ ~output.done
    /\ \E o \in Onlys :
          /\ only' = o
          /\ LET out == rules_bitfield_fields(o, lines)
             IN  output' = [done |-> TRUE, error |-> out.error, items |-> out.items]
    /\ UNCHANGED <<engineVars, maskVars, generator, lines, pos, default_ty, fields,
                   debug_assertions, args>>

NextGenerate == ProcBitfieldFields \/ RulesBitfieldFields

SpecGenerate == InitGenerate /\ [][NextGenerate]_vars

-----------------------------------------------------------------------------
(* The storage as a bit string (BackingStorage): a scalar's bit i is its   *)
(* bit of weight 2^i; a slice's bit i lies in element i div E, at offset   *)
(* i mod E from the least significant bit (LSB0) or from the most           *)
(* significant bit (MSB0).                                                  *)

StorageBit(sh, s, i) ==
    LET e == s[(i \div sh.bits) + 1]
        off == IF sh.kind = "msb0" THEN sh.bits - 1 - (i % sh.bits) ELSE i % sh.bits
    IN  (e \div Pow2(off)) % 2

\* the unsigned number the bits lsb..msb of the storage spell: index lsb is
\* the bit of weight 1, except on an MSB0 slice, where index msb is
RECURSIVE FieldValue(_, _, _, _)
FieldValue(sh, s, msb, lsb) ==
    IF msb < lsb THEN 0
    ELSE IF sh.kind = "msb0"
         THEN StorageBit(sh, s, msb) + 2 * FieldValue(sh, s, msb - 1, lsb)
         ELSE StorageBit(sh, s, lsb) + 2 * FieldValue(sh, s, msb, lsb + 1)

Width(c) == c.msb - c.lsb + 1

\* the value of the call has no bit set at or above the field's width
FitsField(c) == c.value < Pow2(Width(c))

\* C1 (as stated): bit_range(msb, lsb) right after set_bit_range(msb, lsb, v)
\* returns v, for every result type at least as wide as the field and every v
\* with no bit above the field's width.
RoundTripEveryType ==
    (call.op = "set_bit_range" /\ FitsField(call))
        => bit_range(shape, storage, call.msb, call.lsb, call.ty) = call.value

\* the number v read as a two's-complement number of w bits
SignExtended(v, w) == IF v >= Pow2(w - 1) THEN v - Pow2(w) ELSE v

\* C1 (amended): after set_bit_range(msb, lsb, v) with v fitting the field,
\* bit_range(msb, lsb) returns v for an unsigned result type, and v
\* sign-extended from the field's width for a signed one (v itself when its
\* top field bit is 0 or the field is as wide as the type, v - 2^width
\* otherwise).
RoundTrip ==
    (call.op = "set_bit_range" /\ FitsField(call))
        => LET got == bit_range(shape, storage, call.msb, call.lsb, call.ty)
           IN  IF call.ty.signed
               THEN Num(call.ty, got) = SignExtended(call.value, Width(call))
               ELSE got = call.value

\* a signed round trip whose value has the field's top bit set, on a slice
RoundTripWitness ==
    /\ call.op = "set_bit_range"
    /\ FitsField(call)
    /\ call.ty = I16
    /\ shape.kind = "msb0"
    /\ call.msb = 12 /\ call.lsb = 5
    /\ call.value = 150
    /\ Num(I16, bit_range(shape, storage, call.msb, call.lsb, call.ty)) = -106

\* C2: set_bit_range(msb, lsb, v) leaves every storage bit with an index
\* outside [lsb, msb] as it was, for every v, and the storage keeps its length.
NonInterference ==
    call.op = "set_bit_range"
        => /\ Len(storage) = Len(call.before)
           /\ \A i \in 0..TotalBits(shape) - 1 :
                (i < call.lsb \/ i > call.msb)
                    => StorageBit(shape, storage, i) = StorageBit(shape, call.before, i)

\* a value with bits above the field written into the first element of a
\* two-element slice whose bits are all set: the second element is untouched
NonInterferenceWitness ==
    /\ call.op = "set_bit_range"
    /\ shape.kind = "lsb0" /\ shape.len = 2
    /\ call.before = <<255, 255>>
    /\ call.msb = 5 /\ call.lsb = 2
    /\ call.value = 22
    /\ storage = <<219, 255>>

\* C3: set_bit_range(msb, lsb, v) leaves the storage as
\* set_bit_range(msb, lsb, v mod 2^width) does.
Truncation ==
    call.op = "set_bit_range"
        => storage = set_bit_range(shape, call.before, call.msb, call.lsb,
                                   call.value % Pow2(Width(call)), call.ty)

\* 0b10 written to a one-bit field of a zero storage stores 0
TruncationWitness ==
    /\ call.op = "set_bit_range"
    /\ Width(call) = 1
    /\ call.value = 2
    /\ call.before = <<0>>
    /\ storage = <<0>>

UnsignedTypes == {ty \in BitRangeTypes : ~ty.signed}

\* C4: on scalar storage S, bit_range(msb, lsb) into an unsigned result type
\* at least as wide as the field is floor(S / 2^lsb) mod 2^(msb-lsb+1); after
\* a write this holds of every range as wide as the written one, so
\* overlapping fields read each other's bits.
ScalarExtraction ==
    /\ (shape.kind = "scalar" /\ call.op = "bit_range" /\ ~call.ty.signed)
        => call.ret = (storage[1] \div Pow2(call.lsb)) % Pow2(Width(call))
    /\ (shape.kind = "scalar" /\ call.op = "set_bit_range")
        => \A ty \in UnsignedTypes : \A r \in Ranges(shape, ty) :
              r[1] - r[2] = call.msb - call.lsb
                  => bit_range(shape, storage, r[1], r[2], ty)
                        = (storage[1] \div Pow2(r[2])) % Pow2(r[1] - r[2] + 1)

\* 0x7 written to [4,2] of a zero scalar makes [3,1] read 0x6
ScalarExtractionWitness ==
    /\ shape.kind = "scalar"
    /\ call.op = "set_bit_range"
    /\ call.msb = 4 /\ call.lsb = 2 /\ call.value = 7
    /\ call.before = <<0>>
    /\ bit_range(shape, storage, 3, 1, U8) = 6

\* C5: bit_range of a field of width w into a type of at least w bits gives
\* the field zero-extended for an unsigned type (a value in [0, 2^w)) and the
\* field read as a two's-complement number of w bits for a signed one, on
\* scalars and on both slice orders.
SignZeroExtension ==
    call.op = "bit_range"
        => LET u == FieldValue(shape, storage, call.msb, call.lsb)
               n == Num(call.ty, call.ret)
           IN  IF call.ty.signed
               THEN n = SignExtended(u, Width(call))
               ELSE n = u /\ n >= 0 /\ n < Pow2(Width(call))

\* a field with its top bit set read into a wider signed type: negative
SignZeroExtensionWitness ==
    /\ call.op = "bit_range"
    /\ call.ty = I16
    /\ call.msb = 4 /\ call.lsb = 0
    /\ shape.kind = "lsb0"
    /\ storage = <<150>>
    /\ Num(call.ty, call.ret) = -10

\* the slice with the one bit at offset off of element e set
OneBit(sh, e, off) == [k \in 1..sh.len |-> IF k = e THEN Pow2(off) ELSE 0]

AllZero(sh) == [k \in 1..sh.len |-> 0]

\* a write of a 1 to the single bit at one index
SingleBitWrite ==
    \/ call.op = "set_bit" /\ call.value = TRUE
    \/ call.op = "set_bit_range" /\ call.msb = call.lsb /\ call.value % 2 = 1

\* C8: on a zeroed slice of E-bit elements, writing a 1 to the single bit
\* at index i sets only bit (i mod E) of element i div E under LSB0 and only
\* bit (E-1 - i mod E) of that element under MSB0.
SliceBitAddressing ==
    (shape.kind # "scalar" /\ SingleBitWrite /\ call.before = AllZero(shape))
        => storage = OneBit(shape, (call.lsb \div shape.bits) + 1,
                            IF shape.kind = "lsb0"
                            THEN call.lsb % shape.bits
                            ELSE shape.bits - 1 - (call.lsb % shape.bits))

\* set bit 9 of two zero bytes under MSB0: the second byte becomes 0x40
SliceBitAddressingWitness ==
    /\ shape.kind = "msb0"
    /\ call.op = "set_bit" /\ call.value = TRUE
    /\ call.lsb = 9
    /\ call.before = <<0, 0>>
    /\ storage = <<0, 64>>

\* C9: bit(p) is true exactly when bit_range(p, p) is non-zero, and
\* set_bit(p, b) leaves the storage as set_bit_range(p, p, b as 0/1) does,
\* whatever integer type the range accessor uses: a one-bit field and a
\* range field of width 1 at the same position agree.
SingleBitSharesEngine ==
    /\ call.op = "bit"
        => \A ty \in BitRangeTypes :
              call.ret = (bit_range(shape, storage, call.lsb, call.lsb, ty) # 0)
    /\ call.op = "set_bit"
        => \A ty \in BitRangeTypes :
              storage = set_bit_range(shape, call.before, call.lsb, call.lsb,
                                      IF call.value THEN 1 ELSE 0, ty)

\* set_bit(p, false) clearing a bit that was set
SingleBitSharesEngineWitness ==
    /\ call.op = "set_bit"
    /\ call.value = FALSE
    /\ StorageBit(shape, call.before, call.lsb) = 1
    /\ StorageBit(shape, storage, call.lsb) = 0

\* the bit indices of element k of an array field, from its declaration
ElementBits(c, k) == (c.lsb + k * Width(c)) .. (c.msb + k * Width(c))

\* C6: the getter and setter of an array field (msb, lsb, count), called
\* with index k < count, access exactly the range [lsb + k*width, msb + k*width]:
\* the getter returns bit_range on it, the setter acts as set_bit_range on it,
\* the ranges of two distinct indices share no bit, and setting element k
\* changes no other element and no bit outside element k.
StridedConsistency ==
    (call.op \in {"strided_getter", "strided_setter"} /\ call.index < call.count)
        => LET k == call.index
               w == Width(call)
           IN  /\ strided_range(call.msb, call.lsb, k) = <<call.msb + k * w, call.lsb + k * w>>
               /\ \A j \in 0..call.count - 1 :
                     j # k => ElementBits(call, j) \cap
                                 (strided_range(call.msb, call.lsb, k)[2] ..
                                  strided_range(call.msb, call.lsb, k)[1]) = {}
               /\ call.op = "strided_getter"
                     => call.ret = bit_range(shape, storage, call.msb + k * w,
                                             call.lsb + k * w, call.ty)
               /\ call.op = "strided_setter"
                     => /\ storage = set_bit_range(shape, call.before, call.msb + k * w,
                                                   call.lsb + k * w, call.value, call.ty)
                        /\ \A j \in 0..call.count - 1 :
                              j # k => strided_getter(shape, storage, call.ty, call.msb,
                                                      call.lsb, j)
                                       = strided_getter(shape, call.before, call.ty,
                                                        call.msb, call.lsb, j)
                        /\ \A i \in 0..TotalBits(shape) - 1 :
                              i \notin ElementBits(call, k)
                                  => StorageBit(shape, storage, i)
                                     = StorageBit(shape, call.before, i)

\* a field (5, 3, 3) over a zero u16: setting element 2 to all ones writes
\* bits 9..11 (0xE00) and leaves elements 0 and 1 alone
StridedConsistencyWitness ==
    /\ call.op = "strided_setter"
    /\ call.msb = 5 /\ call.lsb = 3 /\ call.count = 3 /\ call.index = 2
    /\ shape.kind = "scalar"
    /\ call.before = <<0>>
    /\ call.value = 255
    /\ storage = <<3584>>

\* the bit indices a declared field covers: the one index, lsb..msb, or the
\* union of the count element ranges
Covered(position) ==
    CASE Len(position) = 1 -> {position[1]}
      [] Len(position) = 2 -> position[2]..position[1]
      [] Len(position) = 3 ->
            position[2]..(position[2] + position[3] * (position[1] - position[2] + 1) - 1)

RECURSIVE SumPow2(_)
SumPow2(S) == IF S = {} THEN 0
              ELSE LET i == CHOOSE x \in S : TRUE IN Pow2(i) + SumPow2(S \ {i})

\* C7: the mask constant generated for a field is the OR of 1 << i over
\* exactly the bit indices the field covers (one index, lsb..msb, or all
\* count element ranges of an array field).
MaskDerivation ==
    maskConst.generated
        => maskConst.ok /\ maskConst.value = SumPow2(Covered(maskField.position))

\* the indices of the field lines among the first n lines, in order
FieldLines(n) == SelectSeq([i \in 1..n |-> i], LAMBDA i : lines[i].kind = "field")

\* the default-type lines before line i
DefaultsBefore(i) == {j \in 1..i - 1 : lines[j].kind = "type"}

\* the nearest default-type line before line i
NearestDefault(i) == CHOOSE j \in DefaultsBefore(i) : \A k \in DefaultsBefore(i) : k <= j

\* C10: one field is resolved per field line consumed, in order; a field
\* with its own type keeps it, a field without gets the type of the nearest
\* default-type line before it. The resolved type depends on the lines up to
\* the field only: a later default-type line does not change it, and a
\* field's own type does not become the default.
DefaultTypePropagation ==
    /\ Len(fields) = Len(FieldLines(pos))
    /\ \A k \in 1..Len(fields) :
          LET i == FieldLines(pos)[k]
          IN  /\ lines[i].ty # "none" => fields[k].ty = lines[i].ty
              /\ (lines[i].ty = "none" /\ DefaultsBefore(i) # {})
                    => fields[k].ty = lines[NearestDefault(i)].ty

\* u16; foo10; u32, foo11; foo12 gives u16, u32, u16
DefaultTypePropagationWitness ==
    /\ lines = << [kind |-> "type", ty |-> "u16"], [kind |-> "field", ty |-> "none"],
                  [kind |-> "field", ty |-> "u32"], [kind |-> "field", ty |-> "none"] >>
    /\ pos = 4
    /\ generator = "proc_macro"
    /\ Len(fields) = 3
    /\ <<fields[1].ty, fields[2].ty, fields[3].ty>> = <<"u16", "u32", "u16">>

-----------------------------------------------------------------------------
(* Claims about what bitfield_fields emits (SpecGenerate).                  *)

FieldIndices == {i \in 1..Len(lines) : lines[i].kind = "field"}

Arity(i) == Len(lines[i].position)

\* line i is a field with no type of its own and no default type line before it
NoTypeAvailable(i) ==
    /\ lines[i].ty = "none"
    /\ \A j \in 1..i - 1 : lines[j].kind # "type"

\* the run is asked for the getter / the setter / the mask of field line i
GetterWanted(i) == lines[i].getter # "_" /\ only \in {"none", "getter"}

SetterWanted(i) == lines[i].setter # "_" /\ only \in {"none", "setter"}

MaskWanted(i) == lines[i].mask /\ only \in {"none", "mask"}

\* the item of a kind emitted for the field numbered as line i
ItemsOf(kind, i) ==
    {k \in 1..Len(output.items) :
        output.items[k].kind = kind /\ output.items[k].n = lines[i].n}

\* the number of a field is the number of its line less the type lines before it
LineOf(n) == CHOOSE i \in FieldIndices : lines[i].n = n

\* macro_rules bitfield_fields has no rule for field line i
NoRule(i) ==
    /\ generator = "macro_rules"
    /\ \/ lines[i].from /\ ~lines[i].into
       \/ lines[i].getter = "_" /\ lines[i].setter = "_"

\* field line i needs a type it does not have
MissingType(i) ==
    NoTypeAvailable(i) /\ Arity(i) >= 2 /\ (GetterWanted(i) \/ SetterWanted(i))

TypeBits(ty) == IF ty = "u8" THEN U8Bits ELSE U16Bits

\* field line i is a range with msb < lsb or wider than its own type
Malformed(i) ==
    /\ Arity(i) = 2
    /\ \/ lines[i].position[1] < lines[i].position[2]
       \/ /\ lines[i].ty # "none"
          /\ lines[i].position[1] - lines[i].position[2] + 1 > TypeBits(lines[i].ty)

BitAccessors ==
    {k \in 1..Len(output.items) :
        output.items[k].arity = 1 /\ output.items[k].kind \in {"getter", "setter"}}

\* C13: the getter of a single-bit field returns bool and its setter takes
\* bool, whatever the field's own type, the default type, `from` and `into`;
\* the raw value read or written is a bool as well.
SingleBitIsBool ==
    output.done
        => /\ \A k \in BitAccessors :
                 output.items[k].sig = "bool" /\ output.items[k].raw = "bool"
           /\ ~output.error
                 => \A i \in FieldIndices :
                       Arity(i) = 1
                          => /\ GetterWanted(i) => ItemsOf("getter", i) \subseteq BitAccessors
                                                   /\ ItemsOf("getter", i) # {}
                             /\ SetterWanted(i) => ItemsOf("setter", i) \subseteq BitAccessors
                                                   /\ ItemsOf("setter", i) # {}

\* `u8, from into FooBar, foo, set_foo: 0;` after a default type u16
SingleBitIsBoolWitness ==
    /\ output.done /\ ~output.error
    /\ Len(lines) = 2 /\ lines[1].kind = "type" /\ lines[2].kind = "field"
    /\ lines[2].ty = "u8" /\ lines[2].from /\ lines[2].into
    /\ lines[2].position = <<0>>
    /\ \E k \in BitAccessors : output.items[k].kind = "getter"
    /\ \E k \in BitAccessors : output.items[k].kind = "setter"

\* the storage type of field line i: its own, or the nearest default type
\* line before it
StorageType(i) ==
    IF lines[i].ty # "none" THEN lines[i].ty
    ELSE LET before == {j \in 1..i - 1 : lines[j].kind = "type"}
         IN  IF before = {} THEN "none"
             ELSE lines[CHOOSE j \in before : \A l \in before : l <= j].ty

\* the getters and setters emitted for range and array fields have the
\* types `from` and `into` ask for
ConversionTypes ==
    \A k \in 1..Len(output.items) :
        LET item == output.items[k]
            i == LineOf(item.n)
        IN  item.arity >= 2
               => /\ item.kind = "getter"
                        => /\ item.sig = IF lines[i].into THEN "FooBar" ELSE StorageType(i)
                           /\ item.raw = StorageType(i)
                  /\ item.kind = "setter"
                        => /\ item.sig = IF lines[i].from THEN "FooBar" ELSE StorageType(i)
                           /\ item.raw = StorageType(i)

\* every getter and setter the run was asked for is there
AccessorsEmitted ==
    /\ ~output.error
    /\ \A i \in FieldIndices :
          /\ GetterWanted(i) => ItemsOf("getter", i) # {}
          /\ SetterWanted(i) => ItemsOf("setter", i) # {}

BothSuppressed(i) == lines[i].getter = "_" /\ lines[i].setter = "_"

FromAlone(i) == lines[i].from /\ ~lines[i].into

ArtifactsAsAsked ==
    \A i \in FieldIndices :
        /\ ItemsOf("getter", i) # {} <=> GetterWanted(i)
        /\ ItemsOf("setter", i) # {} <=> SetterWanted(i)
        /\ ItemsOf("mask", i) # {} <=> MaskWanted(i)
        /\ \A kind \in {"getter", "setter", "mask"} : Cardinality(ItemsOf(kind, i)) <= 1

OfKind(items, kind) == SelectSeq(items, LAMBDA item : item.kind = kind)

\* what the unfiltered run emits for the declaration list
Unfiltered == bitfield_fields(generator, "none", lines)

\* a filtered run emits the unfiltered run's items of its kind, and the
\* unfiltered run is its getters, then its setters, then its masks
FilterOfUnfiltered ==
    /\ only # "none"
          => output.items = OfKind(Unfiltered.items, only)
    /\ only = "none"
          => output.items = OfKind(output.items, "getter")
                            \o OfKind(output.items, "setter")
                            \o OfKind(output.items, "mask")

-----------------------------------------------------------------------------
(* `impl new;`: bitfield_constructor of either generator, the build of the  *)
(* `new` it expands to next to the accessors, and a call of `new` on        *)
(* `struct FooBar(u8)`.                                                      *)

\* the wrapped type $t of `struct FooBar($t)`
WrappedType == "u8"

\* the integer type a type name stands for
TypeNamed(name) == IF name = "u16" THEN U16 ELSE U8

\* a parameter `setter: ty` of `new` and its statement `value.setter(setter);`
Param(f, ty) ==
    [error |-> FALSE,
     items |-> << [kind |-> "param", n |-> f.n, sig |-> ty, raw |-> ty,
                   arity |-> Len(f.position)] >>]

\* the proc macro bitfield_constructor: the filter on the setter's name and
\* the closure that makes one argument
proc_arg(f) ==
    IF f.setter = "_" THEN NoItems
    ELSE CASE Len(f.position) = 1 -> Param(f, "bool")
           [] Len(f.position) = 2 ->
                IF ty_from(f) = "none" THEN Failed ELSE Param(f, ty_from(f))
           [] Len(f.position) = 3 -> Failed

RECURSIVE proc_args(_, _)
proc_args(fs, i) ==
    IF i > Len(fs) THEN NoItems ELSE Then(proc_arg(fs[i]), proc_args(fs, i + 1))

\* the proc macro bitfield_constructor
proc_bitfield_constructor(ls) == proc_args(into_fields(ls), 1)

\* macro_rules bitfield_constructor `@value; (params) -> {stmts}; default_ty;
\* lines from i on`: there are arms for a type line and for a field with or
\* without a type, with or without `into`, whose getter and setter are both
\* identifiers; the parameter's type is the field's type or the default type
RECURSIVE rules_constructor_from(_, _, _)
rules_constructor_from(default_ty_, ls, i) ==
    IF i > Len(ls) THEN NoItems
    ELSE IF ls[i].kind = "type" THEN rules_constructor_from(ls[i].ty, ls, i + 1)
    ELSE IF ls[i].mask \/ ls[i].from \/ ls[i].getter = "_" \/ ls[i].setter = "_"
         THEN Failed
         ELSE Then(Param(ls[i], IF ls[i].ty = "none" THEN default_ty_ ELSE ls[i].ty),
                   rules_constructor_from(default_ty_, ls, i + 1))

\* macro_rules bitfield_constructor!{() -> {}; lines}: the default type
\* starts as bool
rules_bitfield_constructor(ls) == rules_constructor_from("bool", ls, 1)

\* the accessors `new` is built next to: bitfield! hands `$t; lines` to the
\* macro_rules bitfield_fields, the proc macro is given the lines alone
accessors(g, ls) ==
    IF g = "proc_macro" THEN proc_bitfield_fields("none", ls)
    ELSE rules_bitfield_fields("none", <<[kind |-> "type", ty |-> WrappedType]>> \o ls)

\* the build of `new`: each statement `value.setter(setter)` needs a setter
\* of that name with one parameter of the parameter's type
new_type_check(params, acc) ==
    IF params.error \/ acc.error THEN Failed
    ELSE IF \A k \in 1..Len(params.items) :
               \E j \in 1..Len(acc.items) :
                   /\ acc.items[j].kind = "setter"
                   /\ acc.items[j].n = params.items[k].n
                   /\ acc.items[j].arity <= 2
                   /\ acc.items[j].sig = params.items[k].sig
         THEN params
         ELSE Failed

\* bitfield_constructor of either generator, built
bitfield_constructor(g, ls) ==
    new_type_check(IF g = "proc_macro" THEN proc_bitfield_constructor(ls)
                   ELSE rules_bitfield_constructor(ls),
                   accessors(g, ls))

\* Into::into of a FooBar argument: the number it wraps
from_arg(sig, a) == IF sig = "FooBar" THEN a.foobar ELSE a

\* the generated setter of a bit or range field, called with one argument
setter_call(sh, s, item, position, a) ==
    IF item.arity = 1 THEN set_bit(sh, s, position[1], a)
    ELSE set_bit_range(sh, s, position[1], position[2], from_arg(item.sig, a),
                       TypeNamed(item.raw))

\* the body of `new` from statement k on
RECURSIVE new_body(_, _, _, _, _, _)
new_body(sh, value, params, acc, ls, a) ==
    IF params = <<>> THEN value
    ELSE LET p == Head(params)
             item == acc[CHOOSE j \in 1..Len(acc) : acc[j].kind = "setter" /\ acc[j].n = p.n]
             line == ls[CHOOSE i \in 1..Len(ls) : ls[i].kind = "field" /\ ls[i].n = p.n]
         IN  new_body(sh, setter_call(sh, value, item, line.position, Head(a)),
                      Tail(params), acc, ls, Tail(a))

\* the most field lines after `impl new;`
MaxNewFields == 2

NewNames == {<<"foo", "set_foo">>, <<"foo", "_">>, <<"_", "set_foo">>}

\* a bit, two overlapping ranges and an array
NewPositions == {<<0>>, <<3, 0>>, <<5, 2>>, <<1, 0, 2>>}

\* the field lines tried after `impl new;`
NewFieldLines ==
    {FieldLine(ty, FALSE, FALSE, FALSE, names, p) :
        ty \in {"none", "u8"}, names \in NewNames, p \in NewPositions}
    \cup {FieldLine("u8", FALSE, TRUE, TRUE, <<"foo", "set_foo">>, <<3, 0>>)}

\* arguments tried for a parameter
ArgValues(sig) ==
    CASE sig = "bool" -> BOOLEAN
      [] sig = "FooBar" -> {[foobar |-> 6]}
      [] OTHER -> {5, 10}

RECURSIVE ArgLists(_)
ArgLists(params) ==
    IF params = <<>> THEN {<<>>}
    ELSE {<<a>> \o rest : a \in ArgValues(Head(params).sig),
                          rest \in ArgLists(Tail(params))}

InitNew ==
    /\ shape = [kind |-> "scalar", bits |-> U8Bits, len |-> 1]
    /\ storage = <<0>>
    /\ call = NoCall
    /\ MaskIdle
    /\ generator \in {"proc_macro", "macro_rules"}
    /\ \E n \in 0..MaxNewFields : \E fs \in [1..n -> NewFieldLines] :
       \E at \in 0..1 :
          lines = Numbered(fs, at)
    /\ pos = 0
    /\ default_ty = "none"
    /\ fields = <<>>
    /\ BuildIdle

\* the build of a struct with `impl new;`
BitfieldConstructor ==
    /\ ~output.done
    /\ LET out == bitfield_constructor(generator, lines)
       IN  output' = [done |-> TRUE, error |-> out.error, items |-> out.items]
    /\ UNCHANGED <<engineVars, maskVars, declVars, only, debug_assertions, args>>

\* a call FooBar::new(args)
New ==
    /\ output.done /\ ~output.error
    /\ call.op = "none"
    /\ \E a \in ArgLists(output.items) :
          /\ args' = a
          /\ storage' = new_body(shape, <<0>>, output.items,
                                 accessors(generator, lines).items, lines, a)
    /\ call' = [NoCall EXCEPT !.op = "new", !.before = storage]
    /\ UNCHANGED <<shape, maskVars, declVars, only, output, debug_assertions>>

NextNew == BitfieldConstructor \/ New

SpecNew == InitNew /\ [][NextNew]_vars

\* the fields of the declaration list that have a setter, in order
WithSetter == SelectSeq(lines, LAMBDA l : l.kind = "field" /\ l.setter # "_")

\* the setter generated for the field numbered n
SetterOf(n) ==
    LET acc == accessors(generator, lines).items
    IN  acc[CHOOSE j \in 1..Len(acc) : acc[j].kind = "setter" /\ acc[j].n = n]

\* the declared setters applied in declaration order, from setter k on
RECURSIVE SettersApplied(_, _)
SettersApplied(value, k) ==
    IF k > Len(WithSetter) THEN value
    ELSE SettersApplied(setter_call(shape, value, SetterOf(WithSetter[k].n),
                                    WithSetter[k].position, args[k]),
                        k + 1)

\* C17: whenever the accessors build, `new` is generated with one parameter
\* per field that has a setter, in declaration order and of that setter's
\* parameter type, and a call returns the zero storage with those setters
\* applied in that order; a field without a setter adds no parameter and
\* does not stop `new` from being generated.
ConstructorPerSetter ==
    (output.done /\ ~accessors(generator, lines).error)
        => /\ ~output.error
           /\ Len(output.items) = Len(WithSetter)
           /\ \A k \in 1..Len(WithSetter) :
                 /\ output.items[k].n = WithSetter[k].n
                 /\ output.items[k].sig = SetterOf(WithSetter[k].n).sig
           /\ call.op = "new" => storage = SettersApplied(<<0>>, 1)

-----------------------------------------------------------------------------
(* `impl BitAnd;`, `impl BitOr;`, `impl BitXor;`: the operators that        *)
(* bitfield_impl generates, taking self by value and in place.               *)

RECURSIVE BitXor(_, _)
BitXor(a, b) ==
    IF a = 0 THEN b
    ELSE IF b = 0 THEN a
    ELSE ((a + b) % 2) + 2 * BitXor(a \div 2, b \div 2)

\* as_mut[i] $op rhs[i], for $op one of &=, |=, ^=
op_assign(op, x, y) ==
    CASE op = "&" -> BitAnd(x, y)
      [] op = "|" -> BitOr(x, y)
      [] op = "^" -> BitXor(x, y)

\* @mutate leaving the first element as it was
RECURSIVE mutate_from_second(_, _, _, _)
mutate_from_second(as_mut, rhs, op, i) ==
    IF i >= Len(as_mut) THEN [panicked |-> FALSE, value |-> as_mut]
    ELSE IF i >= Len(rhs) THEN [panicked |-> TRUE, value |-> as_mut]
    ELSE IF i = 0 THEN mutate_from_second(as_mut, rhs, op, i + 1)
    ELSE mutate_from_second([as_mut EXCEPT ![i + 1] = op_assign(op, as_mut[i + 1], rhs[i + 1])],
                            rhs, op, i + 1)

\* @mutate stopping at the shorter of the two slices
RECURSIVE mutate_zip(_, _, _, _)
mutate_zip(as_mut, rhs, op, i) ==
    IF i >= Len(as_mut) \/ i >= Len(rhs) THEN [panicked |-> FALSE, value |-> as_mut]
    ELSE mutate_zip([as_mut EXCEPT ![i + 1] = op_assign(op, as_mut[i + 1], rhs[i + 1])],
                    rhs, op, i + 1)

\* @mutate: `for i in 0..as_mut.len() { as_mut[i] $op rhs[i]; }` from i on;
\* rhs[i] panics when rhs has no element i
RECURSIVE mutate(_, _, _, _)
mutate(as_mut, rhs, op, i) ==
    IF i >= Len(as_mut) THEN [panicked |-> FALSE, value |-> as_mut]
    ELSE IF i >= Len(rhs) THEN [panicked |-> TRUE, value |-> as_mut]
    ELSE mutate([as_mut EXCEPT ![i + 1] = op_assign(op, as_mut[i + 1], rhs[i + 1])],
                rhs, op, i + 1)

\* fn $func(mut self, rhs: Self) -> Self
bitwise(sh, self, rhs, op) ==
    IF sh.kind = "scalar"
    THEN [panicked |-> FALSE, value |-> <<op_assign(op, self[1], rhs[1])>>]
    ELSE mutate(self, rhs, op, 0)

\* fn $func_assign(&mut self, rhs: Self)
bitwise_assign(sh, self, rhs, op) ==
    IF sh.kind = "scalar"
    THEN [panicked |-> FALSE, value |-> <<op_assign(op, self[1], rhs[1])>>]
    ELSE mutate(self, rhs, op, 0)

Ops == {"&", "|", "^"}

\* the right operands of a bitfield: the same struct, for a slice of any length
Operands(sh) ==
    IF sh.kind = "scalar" THEN Contents(sh)
    ELSE UNION {Contents([sh EXCEPT !.len = n]) : n \in 1..MaxLen}

\* c = a op b, self taken by value
Bitwise ==
    /\ call.op = "none"
    /\ \E op \in Ops : \E rhs \in Operands(shape) :
          /\ args' = <<rhs>>
          /\ call' = [NoCall EXCEPT !.op = op, !.before = storage,
                                     !.ret = bitwise(shape, storage, rhs, op)]
    /\ UNCHANGED <<shape, storage, maskVars, declVars, only, output, debug_assertions>>

\* a op= b, on the operands of the call before
BitwiseAssign ==
    /\ call.op \in Ops
    /\ LET out == bitwise_assign(shape, storage, args[1], call.op)
       IN  /\ storage' = out.value
           /\ call' = [call EXCEPT !.op = call.op \o "=",
                                    !.value = IF out.panicked THEN 1 ELSE 0]
    /\ UNCHANGED <<shape, maskVars, declVars, buildVars>>

NextBitwise == Bitwise \/ BitwiseAssign

SpecBitwise == Init /\ [][NextBitwise]_vars

\* bit b of the number x
BitOf(x, b) == (x \div Pow2(b)) % 2

\* bit b of x op y
OpOfBits(op, x, y) ==
    CASE op = "&=" -> IF x = 1 /\ y = 1 THEN 1 ELSE 0
      [] op = "|=" -> IF x = 1 \/ y = 1 THEN 1 ELSE 0
      [] op = "^=" -> IF x # y THEN 1 ELSE 0

\* an operator was applied in both forms and returned
Combined == call.op \in {"&=", "|=", "^="} /\ call.value = 0

\* C18: after a op= b every bit of every element of a is the operation on
\* that bit of the elements of a and b at the same index, and a op b
\* returned that same storage; nothing but the two raw storages is used.
BitwiseElementwise ==
    Combined
        => /\ Len(storage) = Len(call.before)
           /\ \A e \in 1..Len(storage) : \A b \in 0..shape.bits - 1 :
                 BitOf(storage[e], b)
                    = OpOfBits(call.op, BitOf(call.before[e], b), BitOf(args[1][e], b))
           /\ call.ret = [panicked |-> FALSE, value |-> storage]

\* a two-element slice with a mixed pattern, xor all ones
BitwiseElementwiseWitness ==
    /\ Combined
    /\ call.op = "^="
    /\ shape.kind = "lsb0" /\ shape.len = 2
    /\ call.before = <<150, 105>>
    /\ args[1] = <<255, 255>>
    /\ storage = <<105, 150>>

-----------------------------------------------------------------------------
(* The accessors of an array field called with any index, in a build with   *)
(* or without debug assertions.  What a call does is an outcome: whether    *)
(* and why it panicked, the value returned, the storage left, and the bit   *)
(* indices of the storage it got to.                                         *)

Returned(s, ret, accessed) ==
    [trapped |-> "none", storage |-> s, ret |-> ret, accessed |-> accessed]

Panicked(why, s, accessed) ==
    [trapped |-> why, storage |-> s, ret |-> 0, accessed |-> accessed]

\* x << n where overflow checks are off: the count wraps in usize and is
\* masked to the width of x
wrapping_shl(x, n, bits) == Shl(x, n % bits, bits)

\* x >> n where overflow checks are off
wrapping_shr(ty, x, n) == Shr(ty, x, n % ty.bits)

\* impl_bitrange_for_u bit_range where overflow checks are off
wrapping_scalar_bit_range(self, bit_len, msb, lsb, ty) ==
    LET result_bit_len == ty.bits
        st == Unsigned(bit_len)
        shifted == wrapping_shr(st, wrapping_shl(self, bit_len - msb - 1, bit_len),
                                bit_len - msb - 1 + lsb)
        result == Cast(st, ty, shifted)
    IN  wrapping_shr(ty, wrapping_shl(result, result_bit_len - (msb - lsb + 1),
                                      result_bit_len),
                     result_bit_len - (msb - lsb + 1))

\* impl_bitrange_for_u set_bit_range where overflow checks are off
wrapping_scalar_set_bit_range(self, bit_len, msb, lsb, value, ty) ==
    LET st == Unsigned(bit_len)
        mask == wrapping_shl(wrapping_shr(st, wrapping_shl(BitNot(0, bit_len),
                                                           bit_len - msb - 1, bit_len),
                                          bit_len - msb - 1 + lsb),
                             lsb, bit_len)
        cleared == BitAnd(self, BitNot(mask, bit_len))
    IN  BitOr(cleared, BitAnd(wrapping_shl(Cast(ty, st, value), lsb, bit_len), mask))

\* bit_range on a range that need not lie in the storage.  A scalar: past
\* its width `bit_len - msb - 1` overflows, a panic where overflow checks
\* are on, wrapping where they are off.  A slice: the element index is
\* checked in every build; the LSB0 loop starts at msb, the MSB0 loop at lsb.
bit_range_outcomes(sh, s, msb, lsb, ty) ==
    IF msb < TotalBits(sh) THEN {Returned(s, bit_range(sh, s, msb, lsb, ty), lsb..msb)}
    ELSE CASE sh.kind = "scalar" ->
                {Panicked("overflow", s, {}),
                 Returned(s, wrapping_scalar_bit_range(s[1], sh.bits, msb, lsb, ty), {})}
           [] sh.kind = "lsb0" -> {Panicked("index out of bounds", s, {})}
           [] sh.kind = "msb0" ->
                {Panicked("index out of bounds", s, lsb..TotalBits(sh) - 1)}

\* set_bit_range on a range that need not lie in the storage: the LSB0 loop
\* writes upwards from lsb until the element index is out of bounds, the
\* MSB0 loop starts at msb
set_bit_range_outcomes(sh, s, msb, lsb, value, ty) ==
    IF msb < TotalBits(sh)
    THEN {Returned(set_bit_range(sh, s, msb, lsb, value, ty), 0, lsb..msb)}
    ELSE CASE sh.kind = "scalar" ->
                {Panicked("overflow", s, {}),
                 Returned(<<wrapping_scalar_set_bit_range(s[1], sh.bits, msb, lsb, value, ty)>>,
                          0, {})}
           [] sh.kind = "lsb0" ->
                {Panicked("index out of bounds",
                          IF lsb < TotalBits(sh)
                          THEN set_bit_range(sh, s, TotalBits(sh) - 1, lsb, value, ty)
                          ELSE s,
                          lsb..TotalBits(sh) - 1)}
           [] sh.kind = "msb0" -> {Panicked("index out of bounds", s, {})}

\* __bitfield_debug_assert!(index < $count) checking in every build
debug_assert_always(dbg, e) == e

\* __bitfield_debug_assert!(e): debug_assert!(e), compiled out without
\* cfg(debug_assertions); TRUE when the call goes on
debug_assert(dbg, e) == ~dbg \/ e

\* fn $getter(&self, index: usize) -> $into, with its assertion
getter_outcomes(dbg, sh, s, t, msb, lsb, count, index) ==
    IF ~debug_assert(dbg, index < count) THEN {Panicked("debug_assert", s, {})}
    ELSE LET r == strided_range(msb, lsb, index)
         IN  bit_range_outcomes(sh, s, r[1], r[2], t)

\* fn $setter(&mut self, index: usize, value: $from), with its assertion
setter_outcomes(dbg, sh, s, t, msb, lsb, count, index, value) ==
    IF ~debug_assert(dbg, index < count) THEN {Panicked("debug_assert", s, {})}
    ELSE LET r == strided_range(msb, lsb, index)
         IN  set_bit_range_outcomes(sh, s, r[1], r[2], value, t)

\* how far past the last element an index is tried
MaxPast == 2

InitIndexed ==
    /\ shape \in Shapes
    /\ storage \in Contents(shape)
    /\ call = NoCall
    /\ MaskIdle
    /\ DeclarationsIdle
    /\ only = "none"
    /\ output = NoOutput
    /\ args = <<>>
    /\ debug_assertions \in BOOLEAN

\* a call of the getter of an array field with any index
IndexedGetter ==
    /\ call.op = "none"
    /\ \E f \in StridedFields(shape, U8) : \E index \in 0..f[3] + MaxPast - 1 :
       \E out \in getter_outcomes(debug_assertions, shape, storage, U8, f[1], f[2],
                                  f[3], index) :
          call' = [NoCall EXCEPT !.op = "getter", !.msb = f[1], !.lsb = f[2],
                                  !.count = f[3], !.index = index, !.ty = U8,
                                  !.before = storage, !.ret = out]
    /\ UNCHANGED <<shape, storage, maskVars, declVars, buildVars>>

\* a call of the setter of an array field with any index
IndexedSetter ==
    /\ call.op = "none"
    /\ \E f \in StridedFields(shape, U8) : \E index \in 0..f[3] + MaxPast - 1 :
       \E v \in FieldValues(U8) :
       \E out \in setter_outcomes(debug_assertions, shape, storage, U8, f[1], f[2],
                                  f[3], index, v) :
          /\ storage' = out.storage
          /\ call' = [NoCall EXCEPT !.op = "setter", !.msb = f[1], !.lsb = f[2],
                                     !.count = f[3], !.index = index, !.ty = U8,
                                     !.value = v, !.before = storage, !.ret = out]
    /\ UNCHANGED <<shape, maskVars, declVars, buildVars>>

NextIndexed == IndexedGetter \/ IndexedSetter

SpecIndexed == InitIndexed /\ [][NextIndexed]_vars

\* an accessor of an array field was called with an index not below count
PastTheEnd == call.op \in {"getter", "setter"} /\ call.index >= call.count

\* the range [lsb + index*width, lsb + index*width + width - 1]
IndexedLsb == call.lsb + call.index * Width(call)

IndexedMsb == IndexedLsb + Width(call) - 1

\* in a debug build the call panics on the assertion with the storage
\* untouched
TrapsInDebug ==
    (PastTheEnd /\ debug_assertions)
        => /\ call.ret.trapped = "debug_assert"
           /\ call.ret.accessed = {}
           /\ storage = call.before

\* the call returned having read, or written, the bits IndexedLsb..IndexedMsb
\* of the storage and no other
AccessedSilently ==
    /\ call.ret.trapped = "none"
    /\ call.ret.accessed = IndexedLsb..IndexedMsb
    /\ call.op = "getter"
          => /\ call.ret.ret = FieldValue(shape, storage, IndexedMsb, IndexedLsb)
             /\ storage = call.before
    /\ call.op = "setter"
          => /\ FieldValue(shape, storage, IndexedMsb, IndexedLsb)
                   = call.value % Pow2(Width(call))
             /\ \A i \in 0..TotalBits(shape) - 1 :
                   i \notin IndexedLsb..IndexedMsb
                      => StorageBit(shape, storage, i) = StorageBit(shape, call.before, i)

\* C19 as stated: with index >= count the call traps in a debug build
\* before any storage access; in a release build it never traps and
\* accesses the bits [lsb + index*width, lsb + index*width + width - 1], on
\* a scalar and on a slice alike.
IndexCheckPolicy ==
    /\ TrapsInDebug
    /\ (PastTheEnd /\ ~debug_assertions) => AccessedSilently

\* C19, amended: with index >= count the call traps in a debug build before
\* any storage access; in a release build the check is gone and the call
\* accesses the bits [lsb + index*width, lsb + index*width + width - 1]
\* silently as long as they lie in the storage; where they reach past the
\* last element of a slice the call panics on the element index, and past
\* the width of a scalar it returns without touching those bits unless
\* overflow checks make it panic.
IndexCheckPolicyInStorage ==
    /\ TrapsInDebug
    /\ (PastTheEnd /\ ~debug_assertions)
          => /\ IndexedMsb < TotalBits(shape) => AccessedSilently
             /\ (IndexedMsb >= TotalBits(shape) /\ shape.kind # "scalar")
                   => call.ret.trapped = "index out of bounds"
             /\ (IndexedMsb >= TotalBits(shape) /\ shape.kind = "scalar")
                   => call.ret.trapped \in {"none", "overflow"}

\* a release build, field (1, 0, 2) of a zero u8, setter called with index 2
\* and all ones: bits 4 and 5 are written
IndexCheckPolicyWitness ==
    /\ PastTheEnd /\ ~debug_assertions
    /\ call.op = "setter"
    /\ shape.kind = "scalar" /\ shape.bits = U8Bits
    /\ call.msb = 1 /\ call.lsb = 0 /\ call.count = 2 /\ call.index = 2
    /\ call.before = <<0>> /\ call.value = 255
    /\ call.ret.trapped = "none"
    /\ storage = <<48>>

-----------------------------------------------------------------------------
(* bitfield!: the struct and the call of bitfield_fields from its impl      *)
(* block.  Over a scalar `struct FooBar($t)` the declarations are handed to *)
(* bitfield_fields behind `$t;`, over a slice as they are.                   *)

\* the name of the wrapped type of a scalar struct
TypeName(sh) == IF sh.bits = U8Bits THEN "u8" ELSE "u16"

\* bitfield! handing the declarations over as they are for every struct
bitfield_default_ty_never(sh) == "none"

\* the default type bitfield_fields starts with: `bitfield_fields!{$t; ...}`
\* for a scalar, `bitfield_fields!{only getter; ...}` for a slice
bitfield_default_ty(sh) == IF sh.kind = "scalar" THEN TypeName(sh) ELSE "none"

InitBitfield ==
    /\ shape \in Shapes
    /\ storage = [e \in 1..shape.len |-> 0]
    /\ call = NoCall
    /\ MaskIdle
    /\ BuildIdle
    /\ generator = "bitfield"
    /\ lines \in DeclLists
    /\ pos = 0
    /\ default_ty = "none"
    /\ fields = <<>>

\* bitfield!{struct FooBar(...); lines}: the arm for the struct's storage
Bitfield ==
    /\ generator = "bitfield"
    /\ generator' = "macro_rules"
    /\ default_ty' = bitfield_default_ty(shape)
    /\ UNCHANGED <<engineVars, maskVars, buildVars, lines, pos, fields>>

NextBitfield == Bitfield \/ BitfieldFieldsNoDefault \/ BitfieldFieldsLine

SpecBitfield == InitBitfield /\ [][NextBitfield]_vars

\* C20: over a scalar struct the running default type starts as the wrapped
\* type: a field without a type of its own before every default type line
\* is resolved to the wrapped type, and a field after a default type line to
\* the nearest such line's type, whatever the wrapped type.
DefaultStartsAsWrappedType ==
    (generator = "macro_rules" /\ shape.kind = "scalar")
        => /\ Len(fields) = Len(FieldLines(pos))
           /\ \A k \in 1..Len(fields) :
                 LET i == FieldLines(pos)[k]
                 IN  lines[i].ty = "none"
                        => fields[k].ty = IF DefaultsBefore(i) = {} THEN TypeName(shape)
                                          ELSE lines[NearestDefault(i)].ty

\* struct FooBar(u8) with foo1; u16; foo2 gives u8, u16
DefaultStartsAsWrappedTypeWitness ==
    /\ generator = "macro_rules"
    /\ shape.kind = "scalar" /\ shape.bits = U8Bits
    /\ lines = << [kind |-> "field", ty |-> "none"], [kind |-> "type", ty |-> "u16"],
                  [kind |-> "field", ty |-> "none"] >>
    /\ pos = 3
    /\ Len(fields) = 2
    /\ <<fields[1].ty, fields[2].ty>> = <<"u8", "u16">>

-----------------------------------------------------------------------------
(* Further claims about the bit-range engine (Spec).                        *)

\* b(i) of an LSB0 slice: bit (i mod E) of element (i div E)
Lsb0Bit(s, E, i) == (s[(i \div E) + 1] \div Pow2(i % E)) % 2

\* the sum over i in lsb..msb of b(i) * 2^(i - lsb), summed from index i up
RECURSIVE Lsb0Sum(_, _, _, _, _)
Lsb0Sum(s, E, i, msb, lsb) ==
    IF i > msb THEN 0
    ELSE Lsb0Bit(s, E, i) * Pow2(i - lsb) + Lsb0Sum(s, E, i + 1, msb, lsb)

\* C21: on an LSB0 slice of E-bit elements, bit_range(msb, lsb) into an
\* unsigned result type at least as wide as the field returns the sum over
\* i in [lsb, msb] of b(i) * 2^(i-lsb), b(i) being bit (i mod E) of element
\* (i div E): index lsb is bit 0 of the result and index msb its top bit,
\* also when the range crosses element boundaries.
Lsb0SliceExtraction ==
    (shape.kind = "lsb0" /\ call.op = "bit_range" /\ ~call.ty.signed)
        => call.ret = Lsb0Sum(storage, shape.bits, call.lsb, call.msb, call.lsb)

\* [11, 4] of the bytes 0x96, 0x69 read into a u16: the high nibble of the
\* first byte below the low nibble of the second, 0x99
Lsb0SliceExtractionWitness ==
    /\ shape.kind = "lsb0" /\ shape.len = 2
    /\ call.op = "bit_range" /\ call.ty = U16
    /\ call.msb = 11 /\ call.lsb = 4
    /\ storage = <<150, 105>>
    /\ call.ret = 153

\* b(i) of an MSB0 slice: bit (E-1 - i mod E) of element (i div E)
Msb0Bit(s, E, i) == (s[(i \div E) + 1] \div Pow2(E - 1 - (i % E))) % 2

\* the sum over i in lsb..msb of b(i) * 2^(msb - i), summed from index i up
RECURSIVE Msb0Sum(_, _, _, _)
Msb0Sum(s, E, i, msb) ==
    IF i > msb THEN 0
    ELSE Msb0Bit(s, E, i) * Pow2(msb - i) + Msb0Sum(s, E, i + 1, msb)

\* set_bit_range on an MSB0 slice stores value bit (msb - i) at index i
Msb0SetterMirrors ==
    (shape.kind = "msb0" /\ call.op = "set_bit_range")
        => \A i \in call.lsb..call.msb :
              Msb0Bit(storage, shape.bits, i) = (call.value \div Pow2(call.msb - i)) % 2

\* C22 (as stated): on an MSB0 slice bit_range(msb, lsb) returns the sum over
\* i in [lsb, msb] of b(i) * 2^(msb-i), whatever the result type, and
\* set_bit_range stores value bit (msb - i) at index i.
Msb0ValueOrderEveryType ==
    /\ (shape.kind = "msb0" /\ call.op = "bit_range")
          => Num(call.ty, call.ret) = Msb0Sum(storage, shape.bits, call.lsb, call.msb)
    /\ Msb0SetterMirrors

\* C22 (amended): on an MSB0 slice bit_range(msb, lsb) into an unsigned
\* result type returns the sum over i in [lsb, msb] of b(i) * 2^(msb-i), b(i)
\* being bit (E-1 - i mod E) of element (i div E), so the lowest index is the
\* most significant bit of the value; into a signed result type it returns
\* that sum read as a two's-complement number of w bits; set_bit_range stores
\* value bit (msb - i) at index i.
Msb0ValueOrder ==
    /\ (shape.kind = "msb0" /\ call.op = "bit_range")
          => LET sum == Msb0Sum(storage, shape.bits, call.lsb, call.msb)
             IN  IF call.ty.signed
                 THEN Num(call.ty, call.ret) = SignExtended(sum, Width(call))
                 ELSE call.ret = sum
    /\ Msb0SetterMirrors

\* [8, 1] of the bytes 0x96, 0x69 read into a u8: the low seven bits of the
\* first byte above the top bit of the second, 0b0010_1100
Msb0ValueOrderWitness ==
    /\ shape.kind = "msb0" /\ shape.len = 2
    /\ call.op = "bit_range" /\ call.ty = U8
    /\ call.msb = 8 /\ call.lsb = 1
    /\ storage = <<150, 105>>
    /\ call.ret = 44

-----------------------------------------------------------------------------
(* impl_bitrange_for_u with its shifts spelled out.  A shift `x << n` or    *)
(* `x >> n` overflows when n is not below the width of x, and the usize      *)
(* subtraction that computes n when it would go below zero: a panic where   *)
(* overflow checks are on, a wrapped count where they are off.               *)

\* the shifts of bit_range, in order: <<count, width of the shifted type>>;
\* with the first count one too long (bit_len - msb)
scalar_bit_range_shifts_off_by_one(bit_len, msb, lsb, ty) ==
    LET result_bit_len == ty.bits
    IN  << <<bit_len - msb, bit_len>>,
           <<bit_len - msb + lsb, bit_len>>,
           <<result_bit_len - (msb - lsb + 1), result_bit_len>>,
           <<result_bit_len - (msb - lsb + 1), result_bit_len>> >>

\* the shifts of bit_range, in order: <<count, width of the shifted type>>
scalar_bit_range_shifts(bit_len, msb, lsb, ty) ==
    LET result_bit_len == ty.bits
    IN  << <<bit_len - msb - 1, bit_len>>,
           <<bit_len - msb - 1 + lsb, bit_len>>,
           <<result_bit_len - (msb - lsb + 1), result_bit_len>>,
           <<result_bit_len - (msb - lsb + 1), result_bit_len>> >>

\* the shifts of set_bit_range, in order: the three of the mask and the one
\* of the value
scalar_set_bit_range_shifts(bit_len, msb, lsb, ty) ==
    << <<bit_len - msb - 1, bit_len>>,
       <<bit_len - msb - 1 + lsb, bit_len>>,
       <<lsb, bit_len>>,
       <<lsb, bit_len>> >>

\* some shift of the list overflows
overflows(shifts) ==
    \E k \in 1..Len(shifts) : shifts[k][1] < 0 \/ shifts[k][1] >= shifts[k][2]

\* bit_range of a scalar on any range
scalar_bit_range_outcomes(self, bit_len, msb, lsb, ty) ==
    IF overflows(scalar_bit_range_shifts(bit_len, msb, lsb, ty))
    THEN {Panicked("overflow", <<self>>, {}),
          Returned(<<self>>, wrapping_scalar_bit_range(self, bit_len, msb, lsb, ty), {})}
    ELSE {Returned(<<self>>, scalar_bit_range(self, bit_len, msb, lsb, ty), lsb..msb)}

\* set_bit_range of a scalar on any range
scalar_set_bit_range_outcomes(self, bit_len, msb, lsb, value, ty) ==
    IF overflows(scalar_set_bit_range_shifts(bit_len, msb, lsb, ty))
    THEN {Panicked("overflow", <<self>>, {}),
          Returned(<<wrapping_scalar_set_bit_range(self, bit_len, msb, lsb, value, ty)>>,
                   0, {})}
    ELSE {Returned(<<scalar_set_bit_range(self, bit_len, msb, lsb, value, ty)>>, 0,
                   lsb..msb)}

\* how far past the top bit of the scalar a range is tried
MaxBeyond == 1

\* ranges with msb >= lsb, reaching up to MaxBeyond bits past the scalar and
\* of any width
AnyRanges(sh) ==
    {r \in (0..sh.bits - 1 + MaxBeyond) \X (0..sh.bits - 1 + MaxBeyond) : r[1] >= r[2]}

InitShifts ==
    /\ shape \in ScalarShapes
    /\ storage \in Contents(shape)
    /\ call = NoCall
    /\ MaskIdle
    /\ DeclarationsIdle
    /\ BuildIdle

\* BitRange::bit_range(&self, msb, lsb) of a scalar
ScalarBitRange ==
    /\ call.op = "none"
    /\ \E ty \in BitRangeTypes : \E r \in AnyRanges(shape) :
       \E out \in scalar_bit_range_outcomes(storage[1], shape.bits, r[1], r[2], ty) :
          call' = [NoCall EXCEPT !.op = "bit_range", !.msb = r[1], !.lsb = r[2], !.ty = ty,
                                  !.before = storage, !.ret = out]
    /\ UNCHANGED <<shape, storage, maskVars, declVars, buildVars>>

\* BitRangeMut::set_bit_range(&mut self, msb, lsb, value) of a scalar
ScalarSetBitRange ==
    /\ call.op = "none"
    /\ \E ty \in BitRangeTypes : \E r \in AnyRanges(shape) : \E v \in FieldValues(ty) :
       \E out \in scalar_set_bit_range_outcomes(storage[1], shape.bits, r[1], r[2], v, ty) :
          /\ storage' = out.storage
          /\ call' = [NoCall EXCEPT !.op = "set_bit_range", !.msb = r[1], !.lsb = r[2],
                                     !.ty = ty, !.value = v, !.before = storage,
                                     !.ret = out]
    /\ UNCHANGED <<shape, maskVars, declVars, buildVars>>

NextShifts == ScalarBitRange \/ ScalarSetBitRange

SpecShifts == InitShifts /\ [][NextShifts]_vars

\* W > msb >= lsb and the width no more than the result type's
WellFormed == call.msb < shape.bits /\ call.msb >= call.lsb /\ Width(call) <= call.ty.bits

\* the shifts of the call
ShiftsOf ==
    IF call.op = "bit_range"
    THEN scalar_bit_range_shifts(shape.bits, call.msb, call.lsb, call.ty)
    ELSE scalar_set_bit_range_shifts(shape.bits, call.msb, call.lsb, call.ty)

\* the range [W-1, 0] with a result type as wide as the storage
FullWidth == call.msb = shape.bits - 1 /\ call.lsb = 0 /\ call.ty.bits = shape.bits

\* C23: on a scalar of width W, every shift count of bit_range and of
\* set_bit_range on a well-formed range (W > msb >= lsb, width no more than
\* the result type's R) lies in [0, W-1], in [0, R-1] for the shifts of the
\* result, so the call does not fail; the range [W-1, 0] with R = W reads
\* back the whole storage and a write of v to it leaves the storage as v.
ShiftsNeverOverflow ==
    (call.op \in {"bit_range", "set_bit_range"} /\ WellFormed)
        => /\ \A k \in 1..Len(ShiftsOf) :
                 ShiftsOf[k][1] >= 0 /\ ShiftsOf[k][1] <= ShiftsOf[k][2] - 1
           /\ call.ret.trapped = "none"
           /\ (FullWidth /\ call.op = "bit_range") => call.ret.ret = call.before[1]
           /\ (FullWidth /\ call.op = "set_bit_range") => storage = <<call.value>>

\* all ones written to [15, 0] of a u16 holding 0x5A96
ShiftsNeverOverflowWitness ==
    /\ call.op = "set_bit_range" /\ WellFormed /\ FullWidth
    /\ shape.bits = U16Bits /\ call.ty = U16
    /\ call.before = <<23190>> /\ call.value = 65535
    /\ call.ret.trapped = "none"
    /\ storage = <<65535>>

-----------------------------------------------------------------------------
(* A one-element LSB0 slice beside a scalar of the element's width.          *)

\* bit_range of an LSB0 slice on a range inside the slice and of any width:
\* the loop's shifts are by one, the closing pair by
\* value_bit_len - (msb - lsb + 1)
slice_bit_range_outcomes(s, bit_len, msb, lsb, ty) ==
    LET value_bit_len == ty.bits
        n == value_bit_len - (msb - lsb + 1)
        value == slice_bit_range_loop(s, bit_len, msb, lsb, ty, 0)
    IN  IF overflows(<< <<n, value_bit_len>>, <<n, value_bit_len>> >>)
        THEN {Panicked("overflow", s, lsb..msb),
              Returned(s, wrapping_shr(ty, wrapping_shl(value, n, value_bit_len), n),
                       lsb..msb)}
        ELSE {Returned(s, slice_bit_range(s, bit_len, msb, lsb, ty), lsb..msb)}

\* what a caller sees of an outcome
Seen(o) == <<o.trapped, o.ret, o.storage>>

\* the call's range lies inside [0, W-1]
InsideScalar == call.msb >= call.lsb /\ call.msb < shape.bits

\* C24: a one-element LSB0 slice whose element is W bits wide behaves like a
\* W-bit scalar holding the same value: for every range inside [0, W-1],
\* every result type and every value, bit_range gives the same result on
\* both (the same value, or the same failure where the range is wider than
\* the result type), and set_bit_range leaves the slice's element equal to
\* the scalar.
ShapeEquivalence ==
    /\ (call.op = "bit_range" /\ InsideScalar)
          => LET slice == slice_bit_range_outcomes(call.before, shape.bits, call.msb,
                                                   call.lsb, call.ty)
                 scalar == scalar_bit_range_outcomes(call.before[1], shape.bits, call.msb,
                                                     call.lsb, call.ty)
             IN  /\ {Seen(o) : o \in slice} = {Seen(o) : o \in scalar}
                 /\ Seen(call.ret) \in {Seen(o) : o \in slice}
    /\ (call.op = "set_bit_range" /\ InsideScalar)
          => /\ call.ret.trapped = "none"
             /\ storage = slice_set_bit_range(call.before, shape.bits, call.msb, call.lsb,
                                              call.value, call.ty)

\* 0xFF written as a u8 to [11, 4] of a u16 holding 0x5A96 leaves 0x5FF6, on
\* the scalar and on the slice
ShapeEquivalenceWitness ==
    /\ call.op = "set_bit_range" /\ InsideScalar
    /\ shape.bits = U16Bits /\ call.ty = U8
    /\ call.msb = 11 /\ call.lsb = 4
    /\ call.before = <<23190>> /\ call.value = 255
    /\ storage = <<24566>>
    /\ slice_set_bit_range(<<23190>>, U16Bits, 11, 4, 255, U8) = <<24566>>

-----------------------------------------------------------------------------
(* A sequence of setter calls on the range fields of one struct.  `fields`  *)
(* holds the two declared fields (of one type, in the order of their lsb;   *)
(* they may overlap), `args` the field and value of every call so far,      *)
(* oldest first, and call.before the storage before the first call.          *)

\* the most setter calls of a sequence
MaxWrites == 3

\* the positions <<msb, lsb>> fields are declared at
RangePositions == {<<3, 0>>, <<7, 4>>, <<5, 2>>, <<11, 4>>}

\* a range field declared `t, getter, setter: msb, lsb`
RangeField(t, position) == [msb |-> position[1], lsb |-> position[2], ty |-> t]

\* the range fields a struct over the storage can declare
RangeFields(sh) ==
    {RangeField(t, p) : t \in {U8, I8}, p \in {q \in RangePositions : q[1] < TotalBits(sh)}}

\* fn $setter(&mut self, value: $t) of a range field
range_setter(sh, s, f, value) == set_bit_range(sh, s, f.msb, f.lsb, value, f.ty)

\* fn $getter(&self) -> $t of a range field
range_getter(sh, s, f) == bit_range(sh, s, f.msb, f.lsb, f.ty)

InitWrites ==
    /\ shape \in Shapes
    /\ storage \in Contents(shape)
    /\ call = [NoCall EXCEPT !.before = storage]
    /\ MaskIdle
    /\ generator = "none"
    /\ lines = <<>>
    /\ pos = 0
    /\ default_ty = "none"
    /\ \E f \in RangeFields(shape) : \E g \in RangeFields(shape) :
          f.lsb < g.lsb /\ f.ty = g.ty /\ fields = <<f, g>>
    /\ only = "none"
    /\ output = NoOutput
    /\ debug_assertions = TRUE
    /\ args = <<>>

\* a call of the setter of one of the fields
RangeSetter ==
    /\ Len(args) < MaxWrites
    /\ \E k \in 1..Len(fields) : \E v \in FieldValues(fields[k].ty) :
          /\ storage' = range_setter(shape, storage, fields[k], v)
          /\ args' = Append(args, [field |-> k, value |-> v])
          /\ call' = [call EXCEPT !.op = "setter", !.msb = fields[k].msb,
                                  !.lsb = fields[k].lsb, !.ty = fields[k].ty, !.value = v]
    /\ UNCHANGED <<shape, maskVars, declVars, only, output, debug_assertions>>

NextWrites == RangeSetter

SpecWrites == InitWrites /\ [][NextWrites]_vars

\* the storage after the calls ws made in order on s
RECURSIVE After(_, _)
After(s, ws) ==
    IF ws = <<>> THEN s
    ELSE After(range_setter(shape, s, fields[Head(ws).field], Head(ws).value), Tail(ws))

\* the calls before the last n
ButLast(n) == SubSeq(args, 1, Len(args) - n)

\* C25: two writes to one range leave the storage as the second alone
\* does, and a write repeated leaves the storage as it was after the first.
LastWriteWins ==
    (Len(args) >= 2 /\ args[Len(args)].field = args[Len(args) - 1].field)
        => LET last == args[Len(args)]
               prior == args[Len(args) - 1]
           IN  /\ storage = After(After(call.before, ButLast(2)), <<last>>)
               /\ last.value = prior.value
                     => storage = After(After(call.before, ButLast(2)), <<prior>>)

\* 0xFF then 0 written to [5, 2] of a u8 holding 0x96: only the 0 shows
LastWriteWinsWitness ==
    /\ shape.kind = "scalar" /\ shape.bits = U8Bits
    /\ call.before = <<150>>
    /\ Len(args) = 2
    /\ args[1].field = 1 /\ args[2].field = 1
    /\ fields[1] = RangeField(U8, <<5, 2>>)
    /\ args[1].value = 255 /\ args[2].value = 0
    /\ storage = <<130>>

\* the two declared ranges share no bit
PairwiseDisjoint == fields[1].msb < fields[2].lsb

\* the indices of the calls on field k
WritesTo(k) == {n \in 1..Len(args) : args[n].field = k}

\* the value of the last call on field k
LastWritten(k) == args[CHOOSE n \in WritesTo(k) : \A m \in WritesTo(k) : m <= n].value

FieldWidth(f) == f.msb - f.lsb + 1

\* two calls on different fields leave the same storage in either order
SettersCommute ==
    (Len(args) >= 2 /\ args[Len(args)].field # args[Len(args) - 1].field)
        => storage = After(After(call.before, ButLast(2)),
                           <<args[Len(args)], args[Len(args) - 1]>>)

\* C26 (as stated): after setter calls on fields with pairwise disjoint
\* ranges the getter of each field returns the low width bits of the last
\* value written to it, or the field's initial content if it was never
\* written, and two setter calls on disjoint ranges commute.
DisjointFieldsKeepLastBits ==
    PairwiseDisjoint
        => /\ \A k \in 1..Len(fields) :
                 range_getter(shape, storage, fields[k])
                    = IF WritesTo(k) = {}
                      THEN range_getter(shape, call.before, fields[k])
                      ELSE LastWritten(k) % Pow2(FieldWidth(fields[k]))
           /\ SettersCommute

\* C26 (amended): after setter calls on fields with pairwise disjoint ranges
\* the getter of each field returns the low width bits of the last value
\* written to it, zero-extended for an unsigned field type and read as a
\* two's-complement number of width bits for a signed one, or the field's
\* initial content if it was never written, and two setter calls on
\* disjoint ranges commute.
DisjointFieldsKeepLast ==
    PairwiseDisjoint
        => /\ \A k \in 1..Len(fields) :
                 LET f == fields[k]
                     got == range_getter(shape, storage, f)
                     low == LastWritten(k) % Pow2(FieldWidth(f))
                 IN  IF WritesTo(k) = {}
                     THEN got = range_getter(shape, call.before, f)
                     ELSE IF f.ty.signed
                          THEN Num(f.ty, got) = SignExtended(low, FieldWidth(f))
                          ELSE got = low
           /\ SettersCommute

\* [3, 0] and [7, 4] of a u8 holding 0x96: 0xFF to the first, 0 to the
\* second, 0x96 to the first again leave 0x06
DisjointFieldsKeepLastWitness ==
    /\ PairwiseDisjoint
    /\ shape.kind = "scalar" /\ shape.bits = U8Bits
    /\ fields = <<RangeField(U8, <<3, 0>>), RangeField(U8, <<7, 4>>)>>
    /\ call.before = <<150>>
    /\ args = << [field |-> 1, value |-> 255], [field |-> 2, value |-> 0],
                 [field |-> 1, value |-> 150] >>
    /\ storage = <<6>>
    /\ range_getter(shape, storage, fields[1]) = 6

-----------------------------------------------------------------------------
(* Further claims about what bit_range depends on (Spec).                    *)

\* the bit index held at offset off (from the least significant bit) of
\* element e
IndexAt(sh, e, off) ==
    (e - 1) * sh.bits + (IF sh.kind = "msb0" THEN sh.bits - 1 - off ELSE off)

\* the element whose bits from offset off up are those b gives
RECURSIVE PackBits(_, _, _, _)
PackBits(sh, b, e, off) ==
    IF off = sh.bits THEN 0
    ELSE b[IndexAt(sh, e, off)] * Pow2(off) + PackBits(sh, b, e, off + 1)

\* the storage with the bits b, a function of the bit index
FromBits(sh, b) == [e \in 1..sh.len |-> PackBits(sh, b, e, 0)]

\* s with every bit outside lsb..msb replaced by fill
Refilled(sh, s, msb, lsb, fill) ==
    FromBits(sh, [i \in 0..TotalBits(sh) - 1 |->
                    IF i >= lsb /\ i <= msb THEN StorageBit(sh, s, i) ELSE fill])

\* s with the bit at index k inverted
Flipped(sh, s, k) ==
    FromBits(sh, [i \in 0..TotalBits(sh) - 1 |->
                    IF i = k THEN 1 - StorageBit(sh, s, i) ELSE StorageBit(sh, s, i)])

\* C27: bit_range of a range of width w strictly smaller than the result
\* type's width returns a value in [0, 2^w) for an unsigned result type and
\* in [-2^(w-1), 2^(w-1)) for a signed one, on every storage shape, and no
\* storage bit outside [lsb, msb] influences the result: inverting any one
\* of them, clearing them all or setting them all gives the same result.
GetterStaysInRange ==
    (call.op = "bit_range" /\ Width(call) < call.ty.bits)
        => LET n == Num(call.ty, call.ret)
               w == Width(call)
           IN  /\ IF call.ty.signed
                  THEN n >= -Pow2(w - 1) /\ n < Pow2(w - 1)
                  ELSE n >= 0 /\ n < Pow2(w)
               /\ \A fill \in {0, 1} :
                     bit_range(shape, Refilled(shape, storage, call.msb, call.lsb, fill),
                               call.msb, call.lsb, call.ty) = call.ret
               /\ \A k \in 0..TotalBits(shape) - 1 :
                     (k < call.lsb \/ k > call.msb)
                        => bit_range(shape, Flipped(shape, storage, k), call.msb, call.lsb,
                                     call.ty) = call.ret

\* [7, 4] of the bytes 0x96, 0x69 read into an i16: 0b1001 is -7, whatever
\* the other twelve bits hold
GetterStaysInRangeWitness ==
    /\ call.op = "bit_range" /\ Width(call) < call.ty.bits
    /\ shape.kind = "lsb0" /\ shape.len = 2
    /\ call.ty = I16
    /\ call.msb = 7 /\ call.lsb = 4
    /\ storage = <<150, 105>>
    /\ Num(call.ty, call.ret) = -7
    /\ Refilled(shape, storage, 7, 4, 0) = <<144, 0>>
    /\ bit_range(shape, <<144, 0>>, 7, 4, I16) = call.ret

-----------------------------------------------------------------------------
(* bitfield!: what the struct's impl blocks hold.  Over a scalar the        *)
(* declarations go to bitfield_fields behind `$t;`; over a slice, MSB0 or   *)
(* not, they go to `only getter;` in the impl with the AsRef bound and to   *)
(* `only setter;` in the impl with the AsMut bound.                          *)

\* bitfield!{struct $name(...); lines}, no default BitRange
bitfield(sh, ls) ==
    IF sh.kind = "scalar"
    THEN rules_bitfield_fields("none", <<[kind |-> "type", ty |-> TypeName(sh)]>> \o ls)
    ELSE Then(rules_bitfield_fields("getter", ls), rules_bitfield_fields("setter", ls))

InitStruct ==
    /\ shape \in Shapes
    /\ storage = [e \in 1..shape.len |-> 0]
    /\ call = NoCall
    /\ MaskIdle
    /\ generator = "bitfield"
    /\ \E n \in 0..MaxFieldLines : \E fs \in [1..n -> FieldLinesTried] :
       \E at \in 0..n + 1 :
          lines = Numbered(fs, at)
    /\ pos = 0
    /\ default_ty = "none"
    /\ fields = <<>>
    /\ BuildIdle

\* the expansion of bitfield! and the build of what it expands to
BitfieldStruct ==
    /\ generator = "bitfield"
    /\ ~output.done
    /\ LET out == bitfield(shape, lines)
       IN  output' = [done |-> TRUE, error |-> out.error, items |-> out.items]
    /\ UNCHANGED <<engineVars, maskVars, declVars, only, debug_assertions, args>>

NextStruct == BitfieldStruct

SpecStruct == InitStruct /\ [][NextStruct]_vars

\* C28: bitfield! emits the same kinds of artifact for a slice-backed struct
\* as for a scalar-backed one: where the struct builds, every field that
\* requests a mask has its mask constant, beside the getters and setters of
\* the fields that name them.
MasksForEveryStorage ==
    (output.done /\ ~output.error)
        => \A i \in FieldIndices :
              /\ lines[i].mask => ItemsOf("mask", i) # {}
              /\ lines[i].getter # "_" => ItemsOf("getter", i) # {}
              /\ lines[i].setter # "_" => ItemsOf("setter", i) # {}

-----------------------------------------------------------------------------
(* Further claims about the operators (SpecBitwise).                         *)

\* element e of the storage is the operation on element e of the operands
ElementCombined(e) ==
    \A b \in 0..shape.bits - 1 :
        BitOf(storage[e], b)
            = OpOfBits(call.op, BitOf(call.before[e], b), BitOf(args[1][e], b))

\* an operator was applied in both forms to a slice
SliceOperator == shape.kind # "scalar" /\ call.op \in {"&=", "|=", "^="}

\* C29: the operators on slices of different lengths: the left operand keeps
\* its length; a right operand at least as long has its first len(lhs)
\* elements combined and the rest ignored; a shorter one makes the operation
\* fail out of bounds, the elements before the failing index combined
\* already and the others as they were.
BitwiseLengths ==
    SliceOperator
        => LET n == Len(call.before)
               m == Len(args[1])
           IN  /\ Len(storage) = n
               /\ m >= n
                    => /\ call.value = 0
                       /\ call.ret = [panicked |-> FALSE, value |-> storage]
                       /\ \A e \in 1..n : ElementCombined(e)
               /\ m < n
                    => /\ call.value = 1
                       /\ call.ret.panicked
                       /\ \A e \in 1..m : ElementCombined(e)
                       /\ \A e \in m + 1..n : storage[e] = call.before[e]

\* 0x96, 0x69 xor the one-element 0xFF: out of bounds at index 1, the first
\* element inverted already
BitwiseLengthsWitness ==
    /\ SliceOperator
    /\ call.op = "^="
    /\ shape.len = 2
    /\ call.before = <<150, 105>>
    /\ args[1] = <<255>>
    /\ call.value = 1
    /\ storage = <<105, 105>>

-----------------------------------------------------------------------------
(* The proc macro's accessors of an array field declared with the type      *)
(* `bool`: `bool, getter, setter: msb, lsb, count`.                           *)

\* fn #getter(&self, index: usize) -> bool: assert_eq!(msb, lsb), the debug
\* assertion on the index, self.bit(lsb + index)
bool_getter_outcomes(dbg, sh, s, msb, lsb, count, index) ==
    IF msb # lsb THEN {Panicked("assert_eq", s, {})}
    ELSE IF ~debug_assert(dbg, index < count) THEN {Panicked("debug_assert", s, {})}
    ELSE {[o EXCEPT !.ret = IF o.trapped = "none" THEN o.ret # 0 ELSE FALSE] :
             o \in bit_range_outcomes(sh, s, lsb + index, lsb + index, U8)}

\* fn #setter(&mut self, index: usize, value: bool): the debug assertion on
\* the index, self.set_bit(lsb + index, value)
bool_setter_outcomes(dbg, sh, s, msb, lsb, count, index, value) ==
    IF ~debug_assert(dbg, index < count) THEN {Panicked("debug_assert", s, {})}
    ELSE set_bit_range_outcomes(sh, s, lsb + index, lsb + index, BoolAsU8(value), U8)

\* how far above lsb the msb of a declaration is tried
MaxSpan == 1

\* declarations <<msb, lsb, count>> whose bits lsb .. lsb + count - 1 lie in
\* the storage
BoolFields(sh) ==
    {f \in (0..TotalBits(sh) - 1 + MaxSpan) \X (0..TotalBits(sh) - 1) \X (1..MaxCount) :
        /\ f[1] >= f[2]
        /\ f[1] - f[2] <= MaxSpan
        /\ f[2] + f[3] <= TotalBits(sh)}

\* set(k, b) on a field
BoolSetter ==
    /\ call.op = "none"
    /\ \E f \in BoolFields(shape) : \E index \in 0..f[3] - 1 : \E v \in BOOLEAN :
       \E out \in bool_setter_outcomes(debug_assertions, shape, storage, f[1], f[2], f[3],
                                       index, v) :
          /\ storage' = out.storage
          /\ call' = [NoCall EXCEPT !.op = "setter", !.msb = f[1], !.lsb = f[2],
                                     !.count = f[3], !.index = index, !.value = v,
                                     !.before = storage, !.ret = out]
    /\ UNCHANGED <<shape, maskVars, declVars, buildVars>>

\* get(k) on the field and index of the set before; both outcomes are kept
BoolGetter ==
    /\ call.op = "setter"
    /\ \E out \in bool_getter_outcomes(debug_assertions, shape, storage, call.msb, call.lsb,
                                       call.count, call.index) :
          call' = [call EXCEPT !.op = "getter", !.ret = [set |-> call.ret, get |-> out]]
    /\ UNCHANGED <<shape, storage, maskVars, declVars, buildVars>>

NextBool == BoolSetter \/ BoolGetter

SpecBool == InitIndexed /\ [][NextBool]_vars

\* C30: getter and setter of a bool array field are symmetric: for every
\* declaration (msb, lsb, count), msb # lsb included, and every index
\* k < count, the getter succeeds exactly when the setter does, both address
\* the one storage bit lsb + k, and get(k) after set(k, b) returns b.
BoolArraySymmetric ==
    (call.op = "getter" /\ call.index < call.count)
        => /\ (call.ret.get.trapped = "none") <=> (call.ret.set.trapped = "none")
           /\ call.ret.set.accessed = {call.lsb + call.index}
           /\ call.ret.get.accessed = {call.lsb + call.index}
           /\ call.ret.get.ret = call.value

====
